---- MODULE Spec2Model ----
(***************************************************************************)
(* Model of the FKZ bot: the plugin registry / dispatch engine of the      *)
(* worker (src/src/lib/PluginLoader.ts, driven by src/src/index.ts) and    *)
(* the process supervisor (src/src/monitor.ts).                            *)
(*                                                                         *)
(* The two processes share nothing but the inter-process channel, so the   *)
(* module holds two state machines over disjoint variables:                *)
(*   Spec         the dispatch engine inside one worker,                   *)
(*   SupSpec      the supervisor with its workers, timers and watch,       *)
(*   SupFairSpec  SupSpec where pending timers and callbacks do run.       *)
(***************************************************************************)
EXTENDS Integers, Sequences, FiniteSets, TLC

(***************************************************************************)
(* Bounds of the model.                                                    *)
(***************************************************************************)
\* plugin files below the plugins root
NumFiles == 2
\* asynchronous engine operations in flight at once
MaxOps == 2
\* plugin objects alive at once (the heap of instances)
MaxInst == 3
\* calls of the engine's operations and started of plugin files in one run
MaxCalls == 4

Files == 1..NumFiles
Slots == 1..MaxOps
InstIds == 1..MaxInst

(***************************************************************************)
(* Command tokens are strings, modelled as sequences of character codes,   *)
(* so that String.prototype.toLowerCase is computed and not assumed.       *)
(***************************************************************************)
\* a normalisation that leaves the letter case as it is
ToLowerBroken(tok) == tok

\* command.toLowerCase()
ToLower(tok) ==
  [i \in 1..Len(tok) |-> IF tok[i] >= 65 /\ tok[i] <= 90 THEN tok[i] + 32 ELSE tok[i]]

\* "p", "P", "q", "Q", "h", "y"
TokP == <<112>>
TokUpP == <<80>>
TokQ == <<113>>
TokUpQ == <<81>>
TokH == <<104>>
TokY == <<121>>
RawTokens == {TokP, TokUpP, TokQ, TokUpQ, TokH, TokY}
NoCommand == <<>>

(***************************************************************************)
(* What a plugin module on disk can be.  A module either fails to resolve  *)
(* or exports a factory; the factory may throw, may register handlers      *)
(* through context.registerCommand, and returns a Plugin with optional     *)
(* commands, init and handleMessage.  Each handler is its list of command  *)
(* tokens.  Whether init rejects is decided when init runs.                *)
(***************************************************************************)
Contents ==
  <<
    \* ping: no init, commands ["p","Q"], generic handler
    [resolves |-> TRUE, throws |-> FALSE, imperative |-> <<>>,
     commands |-> << <<TokP, TokUpQ>> >>, hasInit |-> FALSE, hasHM |-> TRUE],
    \* help: init, commands ["P","h"] (collides with ping on "p"), generic handler
    [resolves |-> TRUE, throws |-> FALSE, imperative |-> <<>>,
     commands |-> << <<TokUpP, TokH>> >>, hasInit |-> TRUE, hasHM |-> TRUE],
    \* registers ["y"] through the context, declares ["q"], init
    [resolves |-> TRUE, throws |-> FALSE, imperative |-> << <<TokY>> >>,
     commands |-> << <<TokQ>> >>, hasInit |-> TRUE, hasHM |-> FALSE],
    \* a module that cannot be resolved (syntax error, missing dependency)
    [resolves |-> FALSE, throws |-> FALSE, imperative |-> <<>>,
     commands |-> <<>>, hasInit |-> FALSE, hasHM |-> FALSE],
    \* a factory that throws
    [resolves |-> TRUE, throws |-> TRUE, imperative |-> <<>>,
     commands |-> <<>>, hasInit |-> FALSE, hasHM |-> FALSE]
  >>
ContentIds == DOMAIN Contents
\* 0: the file does not exist / nothing cached
NoContent == 0

(***************************************************************************)
(* Paths.  A location is a file given in normalized or non-normalized form *)
(* ("plugins//a.ts"); path.normalize maps both to the normalized form.     *)
(***************************************************************************)
Paths == [f : Files, norm : BOOLEAN]
PathNormalize(p) == [f |-> p.f, norm |-> TRUE]

(***************************************************************************)
(* Handlers are objects: the k-th handler of plugin object inst.           *)
(***************************************************************************)
NoInst == 0
NoHandler == <<0, 0>>
NoInstRec == [file |-> 0, content |-> 0]

VARIABLES
  \* PluginLoader fields
  commands,        \* Map<string, CommandHandler>: lower-cased token -> handler
  pluginMetadata,  \* PluginMetadata[]: filePath, loaded, plugin
  loadedPlugins,   \* Plugin[]
  \* the worker's environment
  disk,            \* file -> content of the module on disk
  moduleCache,     \* require.cache: file -> content of the cached module
  insts,           \* the plugin objects made so far: id -> file, content
  started,         \* number of operations called and files edited so far
  \* asynchronous operations of the engine that are suspended at an await
  ops,
  \* the operation that completed in the last step, with its result
  ret,
  \* a caller of getCommands: the Map it was last given
  snapshot

loaderVars ==
  <<commands, pluginMetadata, loadedPlugins, disk, moduleCache, insts, started, ops, ret,
    snapshot>>

VARIABLES
  \* monitor.ts module state
  currentProcess,  \* ChildProcess | null: index into workers, 0 for null
  fileWatchers,    \* fs.FSWatcher[]: the open watches, each with the proc it closes over
  isRestarting,
  debounceTimer,   \* NodeJS.Timeout | null: id of the timer last set, 0 for null
  isShuttingDown,
  \* the event loop of the supervisor
  debouncePending, \* debounce timers not yet fired or cleared
  crashTimers,     \* pending 5 s timers of the exit handler
  restartTimers,   \* pending 1 s timers of startApp's kill callback
  forceExitTimer,  \* gracefulShutdown's 5 s timer is pending
  killRestart,     \* worker whose treeKill from startApp has not called back, or 0
  killShutdown,    \* worker whose treeKill from gracefulShutdown has not called back, or 0
  monitorExit,     \* exit code of the supervisor once process.exit ran, else -1
  \* the workers ever spawned and the channel
  workers,         \* per worker: st, code, nready, inbox, and boot: whether startBot is
                   \* still "starting" (discovery, loadAll, connect) or has "connected"
  sent,            \* instructions sent to workers with proc.send, in order
  events,          \* events of the environment so far
  \* observations
  cleanExit,       \* a worker's exit with code 0 was handled and nothing new arrived since
  refused,         \* startAppProcess refused to spawn because of shutdown (line 73 logged)
  ignored          \* the handler that just ran had startApp ignore its request (line 35 logged)

supVars ==
  <<currentProcess, fileWatchers, isRestarting, debounceTimer, isShuttingDown,
    debouncePending, crashTimers, restartTimers, forceExitTimer, killRestart, killShutdown,
    monitorExit, workers, sent, events, cleanExit, refused, ignored>>

vars == <<loaderVars, supVars>>

(***************************************************************************)
(* Suspended operations.  One record shape serves every operation:         *)
(*   op     "idle", "loadAll", "reload" or "dispatch"                      *)
(*   pc     where the operation is suspended                               *)
(*   m      reloadPlugin's metaIndex                                       *)
(*   f      the file reloadPlugin's filePath argument names                *)
(*   loads  the loadPlugin calls the operation awaits, each                *)
(*          [m: index of its metadata, pc: "import" or "init", inst]       *)
(*   cmd    the command token of the message a dispatch routes             *)
(*   h      the command handler a dispatch awaits                          *)
(*   idx    the array iterator's next index into loadedPlugins             *)
(*   calls  the handlers the dispatch has invoked so far, in order         *)
(*   failed whether a loadPlugin call of the operation ended in its catch  *)
(*   pre    the registry when the operation began                          *)
(*   alone  whether no other operation ran or edit happened since the      *)
(*          operation began                                                *)
(*   warned the tokens of the "Command conflict" warnings the operation's   *)
(*          loadPlugin calls logged, in order                              *)
(*   done   the descriptors whose loadPlugin call completed the load, in   *)
(*          order of completion                                            *)
(*   old    for a dispatch in its fallback loop: whether the array its       *)
(*          iterator walks is no longer this.loadedPlugins (unloadPlugins    *)
(*          assigned a new array), and then that old array                  *)
(*   was    for reloadPlugin, the descriptor's state when it was called:   *)
(*          "unknown", "unloaded" or "loaded"                              *)
(***************************************************************************)
EmptyMap == <<>>
NoArgs == [def |-> FALSE, v |-> <<>>]
Idle ==
  [op |-> "idle", pc |-> "", m |-> 0, f |-> 0, loads |-> {}, h |-> NoHandler,
   idx |-> 0, calls |-> <<>>, failed |-> FALSE, pre |-> EmptyMap, was |-> "",
   alone |-> TRUE, warned |-> <<>>, done |-> <<>>, cmd |-> NoCommand,
   old |-> [frozen |-> FALSE, lp |-> <<>>]]
\* the completed operation: its result ("true", "false", "throw" for a rejected
\* promise, "done" for void), and what the operation record held
NoRet ==
  [op |-> "none", res |-> "", f |-> 0, m |-> 0, inst |-> 0, failed |-> FALSE,
   pre |-> EmptyMap, was |-> "", calls |-> <<>>, alone |-> TRUE, warned |-> <<>>,
   done |-> <<>>, cmd |-> NoCommand]

\* a Map object in a caller's hands: shared says that it is the registry's own
\* Map object, else map holds its entries; nothing was handed out at first
NoSnapshot == [taken |-> FALSE, shared |-> FALSE, map |-> EmptyMap]

Min(S) == CHOOSE x \in S : \A y \in S : x <= y
Range(seq) == {seq[i] : i \in DOMAIN seq}
IdleSlots == {s \in Slots : ops[s].op = "idle"}
AllIdle == IdleSlots = Slots

\* the suspended operations once something else has run
Disturbed == [s \in Slots |-> [ops[s] EXCEPT !.alone = (ops[s].op = "idle")]]

\* the registry with, for each token, the handler and the file of its plugin
Snapshot == [t \in DOMAIN commands |-> [h |-> commands[t], file |-> insts[commands[t][1]].file]]

(***************************************************************************)
(* The plugin objects still referenced from the engine's state.            *)
(***************************************************************************)
Referenced(cmds, meta, lp, o) ==
  {cmds[t][1] : t \in DOMAIN cmds}
    \cup {meta[i].plugin : i \in DOMAIN meta}
    \cup Range(lp)
    \cup UNION {{l.inst : l \in o[s].loads} : s \in Slots}
    \cup {o[s].h[1] : s \in Slots}
    \cup UNION {{o[s].calls[j].h[1] : j \in DOMAIN o[s].calls} : s \in Slots}
    \cup {snapshot.map[t][1] : t \in DOMAIN snapshot.map}
    \cup UNION {Range(o[s].old.lp) : s \in Slots}

\* garbage collection: an object nothing refers to is gone
Collect(heap, cmds, meta, lp, o) ==
  [i \in InstIds |-> IF i \in Referenced(cmds, meta, lp, o) THEN heap[i] ELSE NoInstRec]

FreeInsts == {i \in InstIds : insts[i] = NoInstRec}

(***************************************************************************)
(* PluginLoader.registerCommands (PluginLoader.ts:182-193).                *)
(* A handler to register is [h: the handler object, toks: its commands].   *)
(***************************************************************************)
RECURSIVE RegisterTokensOverwrite(_, _, _)
RegisterTokensOverwrite(cmds, h, toks) ==
  IF toks = <<>> THEN cmds
  ELSE LET n == ToLower(Head(toks))
       IN RegisterTokensOverwrite(
            [t \in DOMAIN cmds \cup {n} |-> IF t = n THEN h ELSE cmds[t]], h, Tail(toks))

\* the inner loop, were a token already present to end it (break for continue)
RECURSIVE RegisterTokensStopAtConflict(_, _, _)
RegisterTokensStopAtConflict(cmds, h, toks) ==
  IF toks = <<>> THEN cmds
  ELSE LET n == ToLower(Head(toks))
       IN IF n \in DOMAIN cmds
          THEN cmds
          ELSE RegisterTokensStopAtConflict(
                 [t \in DOMAIN cmds \cup {n} |-> IF t = n THEN h ELSE cmds[t]], h, Tail(toks))

\* the inner loop: for (const command of handler.commands)
RECURSIVE RegisterTokens(_, _, _)
RegisterTokens(cmds, h, toks) ==
  IF toks = <<>> THEN cmds
  ELSE LET n == ToLower(Head(toks))
       IN IF n \in DOMAIN cmds
          THEN RegisterTokens(cmds, h, Tail(toks))
          ELSE RegisterTokens(
                 [t \in DOMAIN cmds \cup {n} |-> IF t = n THEN h ELSE cmds[t]], h, Tail(toks))

\* the outer loop: for (const handler of handlers)
RECURSIVE RegisterCommands(_, _)
RegisterCommands(cmds, hs) ==
  IF hs = <<>> THEN cmds
  ELSE RegisterCommands(RegisterTokens(cmds, Head(hs).h, Head(hs).toks), Tail(hs))

\* the tokens registerCommands logs a "Command conflict" warning for (line 187), in
\* order; the mute variant logs none
ConflictsOfTokensMute(cmds, toks) == <<>>

RECURSIVE ConflictsOfTokens(_, _)
ConflictsOfTokens(cmds, toks) ==
  IF toks = <<>> THEN <<>>
  ELSE LET n == ToLower(Head(toks))
       IN IF n \in DOMAIN cmds
          THEN <<n>> \o ConflictsOfTokens(cmds, Tail(toks))
          ELSE ConflictsOfTokens([t \in DOMAIN cmds \cup {n} |-> NoHandler], Tail(toks))

RECURSIVE CommandConflicts(_, _)
CommandConflicts(cmds, hs) ==
  IF hs = <<>> THEN <<>>
  ELSE ConflictsOfTokens(cmds, Head(hs).toks)
         \o CommandConflicts(RegisterTokens(cmds, Head(hs).h, Head(hs).toks), Tail(hs))

\* plugin.commands of the object inst made from content c
DeclaredHandlers(inst, c) ==
  [k \in DOMAIN Contents[c].commands |-> [h |-> <<inst, k>>, toks |-> Contents[c].commands[k]]]

\* the handlers the factory of content c passes to context.registerCommand
ImperativeHandlers(inst, c) ==
  [k \in DOMAIN Contents[c].imperative |->
     [h |-> <<inst, Len(Contents[c].commands) + k>>, toks |-> Contents[c].imperative[k]]]

\* the lower-cased tokens plugin.commands of content c declares
DeclaredTokens(c) ==
  UNION {{ToLower(Contents[c].commands[k][j]) : j \in DOMAIN Contents[c].commands[k]} :
           k \in DOMAIN Contents[c].commands}

\* this.pluginMetadata.findIndex(meta => path.normalize(meta.filePath) === normalizedPath),
\* 0 for -1
FindMeta(meta, p) ==
  LET hits == {i \in DOMAIN meta : PathNormalize(meta[i].filePath) = PathNormalize(p)}
  IN IF hits = {} THEN 0 ELSE Min(hits)

\* the object-level effect of unloadPlugin when the plugin is found and loaded
\* (PluginLoader.ts:273-290): delete every declared command, splice the plugin out
\* of loadedPlugins, reset the metadata
UnloadCommands(cmds, inst) ==
  [t \in DOMAIN cmds \ DeclaredTokens(insts[inst].content) |-> cmds[t]]

\* loadedPlugins.findIndex(p => p === plugin) and splice(pluginIndex, 1)
SpliceFirst(lp, inst) ==
  LET hits == {i \in DOMAIN lp : lp[i] = inst}
  IN IF hits = {} THEN lp
     ELSE LET k == Min(hits)
          IN [i \in 1..(Len(lp) - 1) |-> IF i < k THEN lp[i] ELSE lp[i + 1]]

\* unloadPlugin, were line 290 missing: the descriptor keeps its plugin object
UnloadPluginKeepsInstance(p) ==
  LET m == FindMeta(pluginMetadata, p)
  IN IF m = 0 \/ ~pluginMetadata[m].loaded \/ pluginMetadata[m].plugin = NoInst
     THEN [ok |-> FALSE, commands |-> commands, meta |-> pluginMetadata,
           lp |-> loadedPlugins]
     ELSE LET inst == pluginMetadata[m].plugin
          IN [ok |-> TRUE,
              commands |-> UnloadCommands(commands, inst),
              meta |-> [pluginMetadata EXCEPT ![m].loaded = FALSE],
              lp |-> SpliceFirst(loadedPlugins, inst)]

\* unloadPlugin(filePath) as a function of the state:
\* [ok, commands, pluginMetadata, loadedPlugins]
UnloadPlugin(p) ==
  LET m == FindMeta(pluginMetadata, p)
  IN IF m = 0 \/ ~pluginMetadata[m].loaded \/ pluginMetadata[m].plugin = NoInst
     THEN [ok |-> FALSE, commands |-> commands, meta |-> pluginMetadata,
           lp |-> loadedPlugins]
     ELSE LET inst == pluginMetadata[m].plugin
          IN [ok |-> TRUE,
              commands |-> UnloadCommands(commands, inst),
              meta |-> [pluginMetadata EXCEPT ![m].loaded = FALSE, ![m].plugin = NoInst],
              lp |-> SpliceFirst(loadedPlugins, inst)]

(***************************************************************************)
(* Init: the state after `new PluginLoader(PLUGINS_DIR)`.  The plugins     *)
(* directory starts as one of InitialDisks; the environment's edits reach  *)
(* the others.                                                             *)
(***************************************************************************)
InitialDisks ==
  {[f \in Files |-> IF f \in DOMAIN d THEN d[f] ELSE NoContent] : d \in {<<1, 2>>, <<4, 3>>}}
\* what an edit leaves in a file: nothing (deleted), help, the throwing factory
EditTargets == {NoContent, 2, 5}

LoaderInit ==
  /\ commands = EmptyMap
  /\ pluginMetadata = <<>>
  /\ loadedPlugins = <<>>
  /\ disk \in InitialDisks
  /\ moduleCache = [f \in Files |-> NoContent]
  /\ insts = [i \in InstIds |-> NoInstRec]
  /\ started = 0
  /\ ops = [s \in Slots |-> Idle]
  /\ ret = NoRet
  /\ snapshot = NoSnapshot

(***************************************************************************)
(* The environment edits, creates or deletes a plugin file.                *)
(***************************************************************************)
EditFile(f, c) ==
  /\ UNCHANGED <<supVars, snapshot>>
  /\ started < MaxCalls
  /\ disk[f] # c
  /\ disk' = [disk EXCEPT ![f] = c]
  /\ started' = started + 1
  /\ ret' = NoRet
  /\ ops' = Disturbed
  /\ UNCHANGED <<commands, pluginMetadata, loadedPlugins, moduleCache, insts>>

(***************************************************************************)
(* discoverPlugins / discoverDirectory (PluginLoader.ts:69-131): one       *)
(* Unloaded descriptor is pushed for every module file found, in           *)
(* directory order.  No plugin code runs.                                  *)
(***************************************************************************)
FilesOnDisk == {f \in Files : disk[f] # NoContent}

\* directory names "a" and "b"; a descriptor without category has it undefined
DirA == <<97>>
DirB == <<98>>
NoCategory == <<>>

\* where the plugin files lie below the plugins root: file 1 in <root>/a/b/,
\* file 2 directly in the root
FileDir == << <<DirA, DirB>>, <<>> >>

\* fs.readdirSync(dirPath, {withFileTypes: true}): the subdirectories of dirPath,
\* by name, and the module files in it
SubDirs(dirPath) ==
  {FileDir[f][Len(dirPath) + 1] :
     f \in {g \in Files : /\ Len(FileDir[g]) > Len(dirPath)
                          /\ SubSeq(FileDir[g], 1, Len(dirPath)) = dirPath}}
ModulesIn(dirPath) == {f \in FilesOnDisk : FileDir[f] = dirPath}

\* the least directory name of a set of names
FirstName(names) == CHOOSE n \in names : \A o \in names : n[1] <= o[1]

\* lines 120-125, for the module files fs of one directory in order
RECURSIVE PushModules(_, _, _)
PushModules(meta, fs, category) ==
  IF fs = {} THEN meta
  ELSE LET f == Min(fs)
       IN PushModules(
            Append(meta, [filePath |-> [f |-> f, norm |-> TRUE], category |-> category,
                          loaded |-> FALSE, plugin |-> NoInst]),
            fs \ {f}, category)

\* discoverDirectory(dirPath, category): the loop over the items of dirPath, sub
\* the subdirectories not yet visited; a subdirectory is walked with its own name
\* as category (line 115), a module file is pushed with the category passed in
RECURSIVE DiscoverDirectory(_, _, _, _)
DiscoverDirectory(meta, dirPath, category, sub) ==
  IF sub = {} THEN PushModules(meta, ModulesIn(dirPath), category)
  ELSE LET name == FirstName(sub)
           below == Append(dirPath, name)
       IN DiscoverDirectory(DiscoverDirectory(meta, below, name, SubDirs(below)),
                            dirPath, category, sub \ {name})

\* reloadPlugin's category of a location not in the store (lines 316-325): the
\* first segment of the directory's path relative to the plugins root, undefined
\* when that is the empty string
ReloadCategory(p) == IF FileDir[p.f] = <<>> THEN NoCategory ELSE FileDir[p.f][1]

\* descriptors the metadata store may hold in the model
MaxMeta == 3

Discover ==
  /\ UNCHANGED <<supVars, snapshot>>
  /\ started < MaxCalls
  /\ started' = started + 1
  /\ Len(pluginMetadata) + Cardinality(FilesOnDisk) <= MaxMeta
  /\ pluginMetadata' = DiscoverDirectory(pluginMetadata, <<>>, NoCategory, SubDirs(<<>>))
  /\ ret' = [NoRet EXCEPT !.op = "discover", !.res = "done", !.alone = AllIdle]
  /\ ops' = Disturbed
  /\ UNCHANGED <<commands, loadedPlugins, disk, moduleCache, insts>>

(***************************************************************************)
(* loadPlugin (PluginLoader.ts:136-177).  The call runs to `await import`; *)
(* when the import settles it runs the factory and, if the plugin has an   *)
(* init hook, suspends again at `await plugin.init()`; then it registers   *)
(* the commands and marks the descriptor loaded.  Every failure ends in    *)
(* the catch, which only logs.                                             *)
(***************************************************************************)
\* loadPlugin without the check of line 137 (and loadAllPlugins without its filter)
StartLoadsUnguarded(meta, ms) ==
  {[m |-> m, pc |-> "import", inst |-> NoInst] : m \in ms}

\* loadPlugin called for every descriptor that is not loaded, whichever were asked for
StartLoadsEvery(meta, ms) ==
  {[m |-> m, pc |-> "import", inst |-> NoInst] : m \in {k \in DOMAIN meta : ~meta[k].loaded}}

\* loadPlugin up to its first await: the load records of the calls that went on
StartLoads(meta, ms) ==
  {[m |-> m, pc |-> "import", inst |-> NoInst] : m \in {k \in ms : ~meta[k].loaded}}

\* lines 164-167 alone: the descriptor is marked and the plugin pushed, the commands
\* list is not registered
FinishLoadNoRegister(st, m, i) ==
  [st EXCEPT !.status = "loaded",
             !.meta = [st.meta EXCEPT ![m].loaded = TRUE, ![m].plugin = i],
             !.lp = Append(st.lp, i)]

\* lines 159-167 without line 166: the descriptor is marked loaded and the plugin
\* pushed, but the descriptor does not get the plugin object
FinishLoadNoInstance(st, m, i) ==
  [st EXCEPT !.status = "loaded",
             !.commands = RegisterCommands(st.commands, DeclaredHandlers(i, st.heap[i].content)),
             !.warned = st.warned \o CommandConflicts(st.commands,
                                                      DeclaredHandlers(i, st.heap[i].content)),
             !.meta = [st.meta EXCEPT ![m].loaded = TRUE],
             !.lp = Append(st.lp, i)]

\* lines 159-167: register the declared commands, mark loaded, push
FinishLoad(st, m, i) ==
  [st EXCEPT !.status = "loaded",
             !.commands = RegisterCommands(st.commands, DeclaredHandlers(i, st.heap[i].content)),
             !.warned = st.warned \o CommandConflicts(st.commands,
                                                      DeclaredHandlers(i, st.heap[i].content)),
             !.meta = [st.meta EXCEPT ![m].loaded = TRUE, ![m].plugin = i],
             !.lp = Append(st.lp, i)]

\* the engine state a load step works on
LoadState ==
  [status |-> "failed", inst |-> NoInst, commands |-> commands, meta |-> pluginMetadata,
   lp |-> loadedPlugins, cache |-> moduleCache, heap |-> insts, warned |-> <<>>]

\* lines 140-158: the import settled
ImportSettled(l) ==
  LET f == pluginMetadata[l.m].filePath.f
      c == IF moduleCache[f] # NoContent THEN moduleCache[f] ELSE disk[f]
  IN IF c = NoContent \/ ~Contents[c].resolves
     THEN LoadState
     ELSE LET cached == [LoadState EXCEPT !.cache = [moduleCache EXCEPT ![f] = c]]
          IN IF Contents[c].throws
             THEN cached
             ELSE LET i == Min(FreeInsts)
                      made == [cached EXCEPT
                                 !.inst = i,
                                 !.heap = [insts EXCEPT ![i] = [file |-> f, content |-> c]],
                                 !.commands = RegisterCommands(commands, ImperativeHandlers(i, c)),
                                 !.warned = CommandConflicts(commands, ImperativeHandlers(i, c))]
                  IN IF Contents[c].hasInit
                     THEN [made EXCEPT !.status = "init"]
                     ELSE FinishLoad(made, l.m, i)

\* line 158 onwards: init settled
InitSettled(l, ok) ==
  IF ok THEN FinishLoad([LoadState EXCEPT !.inst = l.inst], l.m, l.inst) ELSE LoadState

\* the state after a load step, were the failure of one loadPlugin call to reject
\* Promise.all and so the operation
AfterLoadStepAbort(s, l, st) ==
  LET rest == IF st.status = "failed" THEN {}
              ELSE (ops[s].loads \ {l}) \cup
                     (IF st.status = "init"
                      THEN {[m |-> l.m, pc |-> "init", inst |-> st.inst]} ELSE {})
      failed == ops[s].failed \/ st.status = "failed"
      warned == ops[s].warned \o st.warned
      done == IF st.status = "loaded" THEN Append(ops[s].done, l.m) ELSE ops[s].done
  IN /\ commands' = st.commands
     /\ pluginMetadata' = st.meta
     /\ loadedPlugins' = st.lp
     /\ moduleCache' = st.cache
     /\ IF rest = {}
        THEN /\ ops' = [ops EXCEPT ![s] = Idle]
             /\ ret' = [NoRet EXCEPT !.op = ops[s].op,
                                     !.res = IF failed THEN "throw" ELSE "true",
                                     !.f = ops[s].f, !.m = ops[s].m, !.failed = failed,
                                     !.pre = ops[s].pre, !.was = ops[s].was,
                                     !.alone = ops[s].alone,
                                     !.warned = warned, !.done = done]
        ELSE /\ ops' = [ops EXCEPT ![s].loads = rest, ![s].failed = failed,
                                   ![s].warned = warned, ![s].done = done]
             /\ ret' = NoRet
     /\ insts' = Collect(st.heap, commands', pluginMetadata', loadedPlugins', ops')
     /\ UNCHANGED <<disk, started>>

\* the state after a load step of operation s; the operation returns once all its
\* loadPlugin calls have returned (Promise.all, or reloadPlugin's single await)
AfterLoadStep(s, l, st) ==
  LET rest == (ops[s].loads \ {l}) \cup
                (IF st.status = "init"
                 THEN {[m |-> l.m, pc |-> "init", inst |-> st.inst]} ELSE {})
      failed == ops[s].failed \/ st.status = "failed"
      warned == ops[s].warned \o st.warned
      done == IF st.status = "loaded" THEN Append(ops[s].done, l.m) ELSE ops[s].done
  IN /\ commands' = st.commands
     /\ pluginMetadata' = st.meta
     /\ loadedPlugins' = st.lp
     /\ moduleCache' = st.cache
     /\ IF rest = {}
        THEN /\ ops' = [ops EXCEPT ![s] = Idle]
             /\ ret' = [NoRet EXCEPT !.op = ops[s].op, !.res = "true", !.f = ops[s].f,
                                     !.m = ops[s].m, !.failed = failed,
                                     !.pre = ops[s].pre, !.was = ops[s].was,
                                     !.alone = ops[s].alone,
                                     !.warned = warned, !.done = done]
        ELSE /\ ops' = [ops EXCEPT ![s].loads = rest, ![s].failed = failed,
                                   ![s].warned = warned, ![s].done = done]
             /\ ret' = NoRet
     /\ insts' = Collect(st.heap, commands', pluginMetadata', loadedPlugins', ops')
     /\ UNCHANGED <<disk, started>>

ImportStep(s) ==
  \E l \in ops[s].loads :
    /\ UNCHANGED <<supVars, snapshot>>
    /\ l.pc = "import"
    /\ FreeInsts # {}
    /\ AfterLoadStep(s, l, ImportSettled(l))

InitStep(s) ==
  \E l \in ops[s].loads, ok \in BOOLEAN :
    /\ UNCHANGED <<supVars, snapshot>>
    /\ l.pc = "init"
    /\ AfterLoadStep(s, l, InitSettled(l, ok))

(***************************************************************************)
(* loadAllPlugins (PluginLoader.ts:84-98): loadPlugin is called for every  *)
(* descriptor that is not loaded, all before the first import settles.     *)
(***************************************************************************)
LoadAll ==
  /\ UNCHANGED <<supVars, snapshot>>
  /\ started < MaxCalls
  /\ started' = started + 1
  /\ IdleSlots # {}
  /\ LET s == Min(IdleSlots)
         ls == StartLoads(pluginMetadata, DOMAIN pluginMetadata)
     IN IF ls = {}
        THEN /\ ret' = [NoRet EXCEPT !.op = "loadAll", !.res = "true", !.pre = Snapshot,
                                     !.alone = AllIdle]
             /\ ops' = Disturbed
        ELSE /\ ops' = [Disturbed EXCEPT ![s] =
                          [Idle EXCEPT !.op = "loadAll", !.pc = "load", !.loads = ls,
                                       !.pre = Snapshot, !.alone = AllIdle]]
             /\ ret' = NoRet
  /\ UNCHANGED <<commands, pluginMetadata, loadedPlugins, disk, moduleCache, insts>>

(***************************************************************************)
(* unloadPlugin (PluginLoader.ts:258-294) has no await: one step.          *)
(***************************************************************************)
Unload(p) ==
  /\ UNCHANGED <<supVars, snapshot>>
  /\ started < MaxCalls
  /\ started' = started + 1
  /\ LET u == UnloadPlugin(p)
     IN
     /\ commands' = u.commands
     /\ pluginMetadata' = u.meta
     /\ loadedPlugins' = u.lp
     /\ ret' = [NoRet EXCEPT !.op = "unload", !.res = IF u.ok THEN "true" ELSE "false",
                             !.f = p.f, !.pre = Snapshot, !.alone = AllIdle,
                             !.inst = IF u.ok
                                      THEN pluginMetadata[FindMeta(pluginMetadata, p)].plugin
                                      ELSE NoInst]
     /\ ops' = Disturbed
     /\ insts' = Collect(insts, commands', pluginMetadata', loadedPlugins', ops')
     /\ UNCHANGED <<disk, moduleCache>>

(***************************************************************************)
(* unloadPlugins (PluginLoader.ts:244-252).                                *)
(***************************************************************************)
UnloadAll ==
  /\ UNCHANGED <<supVars, snapshot>>
  /\ started < MaxCalls
  /\ started' = started + 1
  /\ commands' = EmptyMap
  /\ loadedPlugins' = <<>>
  /\ pluginMetadata' =
       [i \in DOMAIN pluginMetadata |->
          [pluginMetadata[i] EXCEPT !.loaded = FALSE, !.plugin = NoInst]]
  /\ ret' = [NoRet EXCEPT !.op = "unloadAll", !.res = "done", !.pre = Snapshot,
                          !.alone = AllIdle]
  \* line 246 assigns a new array: an iterator in flight keeps walking the old one
  /\ ops' = [s \in Slots |->
               IF ops[s].op = "dispatch" /\ ops[s].pc = "message" /\ ~ops[s].old.frozen
               THEN [Disturbed[s] EXCEPT !.old = [frozen |-> TRUE, lp |-> loadedPlugins]]
               ELSE Disturbed[s]]
  /\ insts' = Collect(insts, commands', pluginMetadata', loadedPlugins', ops')
  /\ UNCHANGED <<disk, moduleCache>>

(***************************************************************************)
(* reloadPlugin (PluginLoader.ts:300-341).                                 *)
(*   unknown location: existsSync, push a descriptor, loadPlugin           *)
(*   known location:   unloadPlugin, (await), delete require.cache[        *)
(*                     require.resolve(filePath)], loadPlugin              *)
(* and `return true` once loadPlugin has returned.                         *)
(***************************************************************************)
ReloadStart(p) ==
  /\ UNCHANGED <<supVars, snapshot>>
  /\ started < MaxCalls
  /\ started' = started + 1
  /\ IdleSlots # {}
  /\ LET s == Min(IdleSlots)
         m == FindMeta(pluginMetadata, p)
         u == UnloadPlugin(p)
         fresh == Append(pluginMetadata,
                         [filePath |-> PathNormalize(p), category |-> ReloadCategory(p),
                          loaded |-> FALSE, plugin |-> NoInst])
     IN IF m = 0
        THEN IF disk[p.f] = NoContent
             THEN \* lines 310-313
                  /\ ret' = [NoRet EXCEPT !.op = "reload", !.res = "false", !.f = p.f,
                                          !.pre = Snapshot, !.was = "unknown",
                                          !.alone = AllIdle]
                  /\ ops' = Disturbed
                  /\ UNCHANGED <<commands, pluginMetadata, loadedPlugins, insts>>
             ELSE \* lines 315-329, then loadPlugin up to its import
                  /\ Len(pluginMetadata) < MaxMeta
                  /\ pluginMetadata' = fresh
                  /\ ops' = [Disturbed EXCEPT ![s] =
                               [Idle EXCEPT !.op = "reload", !.pc = "load", !.m = Len(fresh),
                                            !.alone = AllIdle,
                                            !.f = p.f, !.pre = Snapshot,
                                            !.was = "unknown",
                                            !.loads = StartLoads(fresh, {Len(fresh)})]]
                  /\ ret' = NoRet
                  /\ UNCHANGED <<commands, loadedPlugins, insts>>
        ELSE \* line 332: unloadPlugin runs, reloadPlugin suspends at the await
             /\ commands' = u.commands
             /\ pluginMetadata' = u.meta
             /\ loadedPlugins' = u.lp
             /\ ops' = [Disturbed EXCEPT ![s] =
                          [Idle EXCEPT !.op = "reload", !.pc = "unloaded", !.m = m,
                                       !.alone = AllIdle,
                                       !.f = p.f, !.pre = Snapshot,
                                       !.was = IF u.ok THEN "loaded" ELSE "unloaded"]]
             /\ ret' = NoRet
             /\ insts' = Collect(insts, commands', pluginMetadata', loadedPlugins', ops')
  /\ UNCHANGED <<disk, moduleCache>>

\* lines 335-340
ReloadResume(s) ==
  /\ UNCHANGED <<supVars, snapshot>>
  /\ ops[s].op = "reload" /\ ops[s].pc = "unloaded"
  /\ LET ls == StartLoads(pluginMetadata, {ops[s].m})
     IN IF disk[ops[s].f] = NoContent
        THEN \* require.resolve throws: the promise reloadPlugin returned rejects
             /\ ops' = [ops EXCEPT ![s] = Idle]
             /\ ret' = [NoRet EXCEPT !.op = "reload", !.res = "throw", !.f = ops[s].f,
                                     !.m = ops[s].m, !.pre = ops[s].pre,
                                     !.was = ops[s].was, !.alone = ops[s].alone]
             /\ UNCHANGED moduleCache
        ELSE /\ moduleCache' = [moduleCache EXCEPT ![ops[s].f] = NoContent]
             /\ IF ls = {}
                THEN /\ ops' = [ops EXCEPT ![s] = Idle]
                     /\ ret' = [NoRet EXCEPT !.op = "reload", !.res = "true",
                                             !.f = ops[s].f, !.m = ops[s].m,
                                             !.pre = ops[s].pre, !.was = ops[s].was,
                                             !.alone = ops[s].alone]
                ELSE /\ ops' = [ops EXCEPT ![s].pc = "load", ![s].loads = ls]
                     /\ ret' = NoRet
  /\ UNCHANGED <<commands, pluginMetadata, loadedPlugins, disk, insts, started>>

(***************************************************************************)
(* handleMessage (PluginLoader.ts:198-232), the dispatch of one message.   *)
(* A message is its command token (or none) and its args (or undefined).   *)
(* What a handler does is the environment's choice when it settles.        *)
(***************************************************************************)
MsgArgs == {NoArgs, [def |-> TRUE, v |-> <<1>>]}
MsgCommands == {NoCommand, TokQ, TokUpQ, TokY}

\* args || []
ArgsPassed(a) == IF a.def THEN a.v ELSE <<>>

CommandCall(h, a) == [kind |-> "command", h |-> h, args |-> ArgsPassed(a)]
MessageCall(inst) == [kind |-> "message", h |-> <<inst, 0>>, args |-> <<>>]

HasHandleMessage(inst) == Contents[insts[inst].content].hasHM

\* the for...of loop over this.loadedPlugins from iterator index idx on: the index
\* of the next plugin with a handleMessage hook, 0 when the iterator is exhausted
NextMessageHandler(idx) ==
  LET js == {j \in DOMAIN loadedPlugins : j >= idx /\ HasHandleMessage(loadedPlugins[j])}
  IN IF js = {} THEN 0 ELSE Min(js)

\* the array the iterator of the dispatch in slot s of o walks: this.loadedPlugins
\* as it is now, unless unloadPlugins has replaced it since the loop began
Iterated(o, s) == IF o[s].old.frozen THEN o[s].old.lp ELSE loadedPlugins

\* the dispatch of slot s is over
DispatchReturns(s, o, res, failed) ==
  /\ ops' = [o EXCEPT ![s] = Idle]
  /\ ret' = [NoRet EXCEPT !.op = "dispatch", !.res = res, !.calls = o[s].calls,
                          !.failed = failed, !.alone = o[s].alone, !.cmd = o[s].cmd]

\* enter or continue the fallback loop of the dispatch in slot s of o, with the
\* iterator at idx
Fallback(s, o, idx, failed) ==
  LET lp == Iterated(o, s)
      js == {k \in DOMAIN lp : k >= idx /\ HasHandleMessage(lp[k])}
      j == IF js = {} THEN 0 ELSE Min(js)
  IN IF j = 0
     THEN DispatchReturns(s, o, "done", failed)
     ELSE /\ ops' = [o EXCEPT ![s].pc = "message", ![s].idx = j + 1, ![s].failed = failed,
                              ![s].calls = Append(o[s].calls, MessageCall(lp[j]))]
          /\ ret' = NoRet

DispatchStart(cmd, a) ==
  /\ UNCHANGED <<supVars, snapshot>>
  /\ started < MaxCalls
  /\ started' = started + 1
  /\ IdleSlots # {}
  /\ LET s == Min(IdleSlots)
         o == [x \in Slots |-> IF x = s
                                THEN [Idle EXCEPT !.op = "dispatch", !.alone = AllIdle,
                                                  !.cmd = cmd]
                                ELSE Disturbed[x]]
     IN IF cmd # NoCommand /\ ToLower(cmd) \in DOMAIN commands
        THEN /\ ops' = [o EXCEPT ![s].pc = "command",
                                 ![s].h = commands[ToLower(cmd)],
                                 ![s].calls = <<CommandCall(commands[ToLower(cmd)], a)>>]
             /\ ret' = NoRet
        ELSE Fallback(s, o, 1, FALSE)
  /\ insts' = Collect(insts, commands, pluginMetadata, loadedPlugins, ops')
  /\ UNCHANGED <<commands, pluginMetadata, loadedPlugins, disk, moduleCache>>

\* the command handler settled: lines 208-216
CommandSettledFallThrough(s, ok) ==
  /\ UNCHANGED <<supVars, snapshot>>
  /\ ops[s].op = "dispatch" /\ ops[s].pc = "command"
  /\ IF ok
     THEN DispatchReturns(s, ops, "done", FALSE)
     ELSE Fallback(s, ops, 1, TRUE)
  /\ insts' = Collect(insts, commands, pluginMetadata, loadedPlugins, ops')
  /\ UNCHANGED <<commands, pluginMetadata, loadedPlugins, disk, moduleCache, started>>

CommandSettled(s, ok) ==
  /\ UNCHANGED <<supVars, snapshot>>
  /\ ops[s].op = "dispatch" /\ ops[s].pc = "command"
  /\ IF ok
     THEN DispatchReturns(s, ops, "done", FALSE)
     ELSE /\ ops' = [ops EXCEPT ![s].pc = "reply", ![s].failed = TRUE]
          /\ ret' = NoRet
  /\ insts' = Collect(insts, commands, pluginMetadata, loadedPlugins, ops')
  /\ UNCHANGED <<commands, pluginMetadata, loadedPlugins, disk, moduleCache, started>>

\* message.reply settled: lines 212-215; a rejected reply rejects handleMessage
ReplySettled(s, ok) ==
  /\ UNCHANGED <<supVars, snapshot>>
  /\ ops[s].op = "dispatch" /\ ops[s].pc = "reply"
  /\ DispatchReturns(s, ops, IF ok THEN "done" ELSE "throw", TRUE)
  /\ insts' = Collect(insts, commands, pluginMetadata, loadedPlugins, ops')
  /\ UNCHANGED <<commands, pluginMetadata, loadedPlugins, disk, moduleCache, started>>

\* plugin.handleMessage settled, were an error of a handler to end the loop
MessageSettledStopOnThrow(s, out) ==
  /\ UNCHANGED <<supVars, snapshot>>
  /\ ops[s].op = "dispatch" /\ ops[s].pc = "message"
  /\ IF out \in {"true", "throw"}
     THEN DispatchReturns(s, ops, "done", ops[s].failed \/ out = "throw")
     ELSE Fallback(s, ops, ops[s].idx, ops[s].failed)
  /\ insts' = Collect(insts, commands, pluginMetadata, loadedPlugins, ops')
  /\ UNCHANGED <<commands, pluginMetadata, loadedPlugins, disk, moduleCache, started>>

\* plugin.handleMessage settled: lines 224-229
MessageSettled(s, out) ==
  /\ UNCHANGED <<supVars, snapshot>>
  /\ ops[s].op = "dispatch" /\ ops[s].pc = "message"
  /\ IF out = "true"
     THEN DispatchReturns(s, ops, "done", ops[s].failed)
     ELSE Fallback(s, ops, ops[s].idx, ops[s].failed \/ out = "throw")
  /\ insts' = Collect(insts, commands, pluginMetadata, loadedPlugins, ops')
  /\ UNCHANGED <<commands, pluginMetadata, loadedPlugins, disk, moduleCache, started>>

(***************************************************************************)
(* getCommands (PluginLoader.ts:237-239) and a caller that changes the Map *)
(* it was given.                                                           *)
(***************************************************************************)
\* `return this.commands`: the caller holds the registry's Map object
SameMap(cmds) == [taken |-> TRUE, shared |-> TRUE, map |-> EmptyMap]

\* new Map(this.commands): a new Map object with the same entries
NewMap(cmds) == [taken |-> TRUE, shared |-> FALSE, map |-> cmds]

\* the entries of the Map the caller holds
SnapshotEntries == IF snapshot.shared THEN commands ELSE snapshot.map

\* map.delete(t)
MapDelete(map, t) == [u \in DOMAIN map \ {t} |-> map[u]]

GetCommands ==
  /\ UNCHANGED supVars
  /\ started < MaxCalls
  /\ started' = started + 1
  /\ snapshot' = NewMap(commands)
  /\ ret' = [NoRet EXCEPT !.op = "getCommands", !.res = "done", !.pre = Snapshot,
                          !.alone = AllIdle]
  /\ UNCHANGED <<commands, pluginMetadata, loadedPlugins, disk, moduleCache, insts, ops>>

\* the caller deletes token t from the Map it holds
ModifySnapshot(t) ==
  /\ UNCHANGED supVars
  /\ started < MaxCalls
  /\ started' = started + 1
  /\ snapshot.taken
  /\ t \in DOMAIN SnapshotEntries
  /\ IF snapshot.shared
     THEN /\ commands' = MapDelete(commands, t)
          /\ UNCHANGED snapshot
     ELSE /\ snapshot' = [snapshot EXCEPT !.map = MapDelete(snapshot.map, t)]
          /\ UNCHANGED commands
  /\ ret' = [NoRet EXCEPT !.op = "modifySnapshot", !.res = "done", !.pre = Snapshot,
                          !.alone = AllIdle]
  /\ UNCHANGED <<pluginMetadata, loadedPlugins, disk, moduleCache, insts, ops>>

Next ==
  \/ \E f \in Files, c \in EditTargets : EditFile(f, c)
  \/ Discover
  \/ LoadAll
  \/ \E s \in Slots : ImportStep(s)
  \/ \E s \in Slots : InitStep(s)
  \/ \E p \in Paths : Unload(p)
  \/ UnloadAll
  \/ \E p \in Paths : ReloadStart(p)
  \/ \E s \in Slots : ReloadResume(s)
  \/ \E cmd \in MsgCommands, a \in MsgArgs : DispatchStart(cmd, a)
  \/ \E s \in Slots, ok \in BOOLEAN : CommandSettled(s, ok)
  \/ \E s \in Slots, ok \in BOOLEAN : ReplySettled(s, ok)
  \/ \E s \in Slots, out \in {"true", "false", "throw"} : MessageSettled(s, out)


(***************************************************************************)
(* Properties of the dispatch engine.                                      *)
(***************************************************************************)

\* the plugin file a handler of the current registry belongs to
OwnerFile(t) == insts[commands[t][1]].file

\* C1: first registrant wins.  Registry keys are lower-cased tokens; no step ever
\* changes the handler a token is mapped to (a later registration of the token, in
\* any letter case and by any plugin, is skipped), and a step that loads a plugin
\* removes no token.
FirstRegistrantWins ==
  /\ [](\A t \in DOMAIN commands : t = ToLower(t))
  /\ [][/\ \A t \in DOMAIN commands :
              t \in DOMAIN commands' => commands'[t] = commands[t]
        /\ Len(loadedPlugins') > Len(loadedPlugins) =>
              DOMAIN commands \subseteq DOMAIN commands']_loaderVars

\* ping then help loaded: help's "P" lost to ping's "p", help's "h" registered
CollisionKeptFirst ==
  /\ Len(loadedPlugins) = 2
  /\ insts[loadedPlugins[1]].content = 1
  /\ insts[loadedPlugins[2]].content = 2
  /\ TokP \in DOMAIN commands /\ commands[TokP] = <<loadedPlugins[1], 1>>
  /\ TokH \in DOMAIN commands /\ commands[TokH] = <<loadedPlugins[2], 1>>

\* C2: a successful unload of plugin P removes from the registry exactly the
\* tokens that mapped to handlers of P and leaves every other token as it was.
UnloadRemovesExactlyOwnTokens ==
  (ret.op = "unload" /\ ret.res = "true") =>
    commands = [t \in {u \in DOMAIN ret.pre : ret.pre[u].h[1] # ret.inst} |-> ret.pre[t].h]

\* C3: a reload of a Loaded plugin that succeeds, with nothing else running, and
\* whose new content declares the tokens the plugin held, leaves every token of
\* the registry mapped to a handler of the same plugin file as before.
ReloadRestoresRegistry ==
  (/\ ret.op = "reload" /\ ret.was = "loaded" /\ ret.res = "true"
   /\ ~ret.failed /\ ret.alone
   /\ pluginMetadata[ret.m].loaded
   /\ {t \in DOMAIN ret.pre : ret.pre[t].file = ret.f}
        \subseteq DeclaredTokens(insts[pluginMetadata[ret.m].plugin].content))
  => \A t \in DOMAIN ret.pre : t \in DOMAIN commands /\ OwnerFile(t) = ret.pre[t].file

\* C4: reload never throws, reports false when a load failed, and reports true
\* only when the descriptor ends up Loaded.
ReloadReportsFailure ==
  ret.op = "reload" =>
    /\ ret.res # "throw"
    /\ ret.failed => ret.res = "false"
    /\ (ret.res = "true" /\ ret.alone) => pluginMetadata[ret.m].loaded

\* C10: routing precedence.  A dispatch whose command resolves in the registry
\* invokes that command's handler with the message's args (or []), and a dispatch
\* that invoked a command handler never invokes anything else, whether the
\* handler returned or threw.
RoutingPrecedence ==
  /\ [](\A s \in Slots :
          (ops[s].op = "dispatch" /\ ops[s].calls # <<>> /\ ops[s].calls[1].kind = "command")
            => Len(ops[s].calls) = 1 /\ ops[s].calls[1].h = ops[s].h)
  /\ []((ret.op = "dispatch" /\ ret.calls # <<>> /\ ret.calls[1].kind = "command")
            => Len(ret.calls) = 1)
  /\ [][\A cmd \in MsgCommands, a \in MsgArgs :
          (DispatchStart(cmd, a) /\ cmd # NoCommand /\ ToLower(cmd) \in DOMAIN commands)
            => \E s \in Slots :
                 /\ ops[s].op = "idle"
                 /\ ops'[s].pc = "command"
                 /\ ops'[s].calls = <<CommandCall(commands[ToLower(cmd)], a)>>]_loaderVars

\* a command handler threw, the failure notice was sent, and no generic hook of the
\* loaded plugins was offered the message
CommandFailedNoFallback ==
  /\ ret.op = "dispatch" /\ ret.res = "done" /\ ret.failed
  /\ Len(ret.calls) = 1 /\ ret.calls[1].kind = "command" /\ ret.calls[1].args = <<1>>
  /\ \E j \in DOMAIN loadedPlugins : HasHandleMessage(loadedPlugins[j])

\* the generic handlers of the first n loaded plugins, in load order
RECURSIVE MessageCallsOf(_)
MessageCallsOf(n) ==
  IF n = 0 THEN <<>>
  ELSE IF HasHandleMessage(loadedPlugins[n])
       THEN Append(MessageCallsOf(n - 1), MessageCall(loadedPlugins[n]))
       ELSE MessageCallsOf(n - 1)

\* C11: fallback ordering.  While a dispatch without a resolving command runs with
\* nothing else running, the handlers it has invoked are exactly the generic
\* handlers of the loaded plugins up to the iterator, in load order; a handler
\* that returns true ends the dispatch; one that throws or returns false is
\* followed by the next plugin's handler, or by the end of the dispatch.
FallbackOrdering ==
  /\ [](\A s \in Slots :
          (ops[s].op = "dispatch" /\ ops[s].pc = "message" /\ ops[s].alone)
            => ops[s].calls = MessageCallsOf(ops[s].idx - 1))
  /\ []((ret.op = "dispatch" /\ ret.alone /\ ret.res = "done" /\ ~ret.failed
           /\ (ret.calls = <<>> \/ ret.calls[1].kind = "message"))
          => \E n \in 0..Len(loadedPlugins) : ret.calls = MessageCallsOf(n))
  /\ [][\A s \in Slots :
          /\ MessageSettled(s, "true")
               => (ret'.op = "dispatch" /\ ret'.calls = ops[s].calls)
          /\ \A out \in {"false", "throw"} :
               (MessageSettled(s, out) /\ ops[s].alone) =>
                 LET j == NextMessageHandler(ops[s].idx)
                 IN IF j = 0
                    THEN ret'.op = "dispatch" /\ ret'.calls = MessageCallsOf(Len(loadedPlugins))
                    ELSE ops'[s].calls = Append(ops[s].calls, MessageCall(loadedPlugins[j]))
        ]_vars

\* C11 witness: two plugins with generic handlers are loaded; the first one's handler
\* threw and the second one's was invoked next
FallbackContinuedAfterThrow ==
  /\ ret.op = "dispatch" /\ ret.alone /\ ret.failed
  /\ Len(loadedPlugins) = 2
  /\ ret.calls = <<MessageCall(loadedPlugins[1]), MessageCall(loadedPlugins[2])>>

\* C12: no dispatch raises an error to its caller, whatever the command handler,
\* the generic handlers or the sending of the failure notice do.
DispatchNeverThrows == ret.op = "dispatch" => ret.res # "throw"

\* the module an import of file f evaluates to: the cached one, else the one on disk
EffectiveContent(f) == IF moduleCache[f] # NoContent THEN moduleCache[f] ELSE disk[f]

\* a module whose load cannot fail: it resolves, its factory returns, it has no init
LoadsSurely(c) ==
  c # NoContent /\ Contents[c].resolves /\ ~Contents[c].throws /\ ~Contents[c].hasInit

\* C13: load-failure isolation.  Every loadAll completes without error.  After a
\* loadAll during which nothing else ran, every descriptor whose module loads
\* surely is Loaded, and a load of the operation failed exactly when a descriptor
\* is still Unloaded.  A descriptor becomes Loaded only with a plugin that a
\* factory of its own file returned (so a module that does not resolve or whose
\* factory throws leaves it Unloaded), and at that step its declared tokens are in
\* the registry; the later load steps of the operation remove no token.
LoadAllIsolatesFailures ==
  /\ [](ret.op = "loadAll" => ret.res = "true")
  /\ []((ret.op = "loadAll" /\ ret.alone) =>
          /\ \A m \in DOMAIN pluginMetadata :
               LoadsSurely(EffectiveContent(pluginMetadata[m].filePath.f)) =>
                 pluginMetadata[m].loaded
          /\ ret.failed <=> (\E m \in DOMAIN pluginMetadata : ~pluginMetadata[m].loaded))
  /\ [][\A m \in DOMAIN pluginMetadata :
          (m \in DOMAIN pluginMetadata' /\ ~pluginMetadata[m].loaded
             /\ pluginMetadata'[m].loaded) =>
            LET i == pluginMetadata'[m].plugin
            IN /\ i # NoInst
               /\ insts'[i].file = pluginMetadata[m].filePath.f
               /\ Contents[insts'[i].content].resolves
               /\ ~Contents[insts'[i].content].throws
               /\ i \in Range(loadedPlugins')
               /\ DeclaredTokens(insts'[i].content) \subseteq DOMAIN commands']_vars
  /\ [][\A s \in Slots :
          (ops[s].op = "loadAll" /\ ops'[s] # ops[s]
             /\ (ops'[s].op = "idle" \/ ops'[s].loads # ops[s].loads)) =>
            DOMAIN commands \subseteq DOMAIN commands']_vars

\* C13 witness: a loadAll with nothing else running returned; one load failed on a
\* module that does not resolve and the other descriptor is Loaded
LoadAllSurvivedFailure ==
  /\ ret.op = "loadAll" /\ ret.alone /\ ret.failed /\ ret.res = "true"
  /\ Len(pluginMetadata) = 2
  /\ ~pluginMetadata[1].loaded /\ pluginMetadata[2].loaded
  /\ disk[pluginMetadata[1].filePath.f] = 4

\* C14: when the init hook of a plugin rejects during loadAll, the plugin is not
\* loaded and no token of the registry maps to one of its handlers, neither a
\* declared one nor one its factory registered through context.registerCommand;
\* and a loadAll with a failed load leaves fewer plugins Loaded than discovered.
InitRejectContributesNothing ==
  /\ []((ret.op = "loadAll" /\ ret.alone /\ ret.failed) =>
          Len(loadedPlugins) < Len(pluginMetadata))
  /\ [][\A s \in Slots : \A l \in ops[s].loads :
          (ops[s].op = "loadAll" /\ l.pc = "init"
             /\ (ops'[s].op = "idle" \/ l \notin ops'[s].loads)
             /\ ~pluginMetadata'[l.m].loaded) =>
            /\ l.inst \notin Range(loadedPlugins')
            /\ \A t \in DOMAIN commands' : commands'[t][1] # l.inst]_vars

\* the lower-cased tokens the factory of content c registers through the context
ImperativeTokens(c) ==
  UNION {{ToLower(Contents[c].imperative[k][j]) : j \in DOMAIN Contents[c].imperative[k]} :
           k \in DOMAIN Contents[c].imperative}

\* every command token of a plugin made from content c
PluginTokens(c) == DeclaredTokens(c) \cup ImperativeTokens(c)

\* the content of the plugin descriptor m holds
PluginContent(m) == insts[pluginMetadata[m].plugin].content

\* the sum, over the first n descriptors, of the number of tokens of their plugins
RECURSIVE SumOfTokens(_)
SumOfTokens(n) ==
  IF n = 0 THEN 0 ELSE SumOfTokens(n - 1) + Cardinality(PluginTokens(PluginContent(n)))

\* the plugins of all descriptors are loaded and their token sets pairwise disjoint
DisjointTokens ==
  /\ \A m \in DOMAIN pluginMetadata : pluginMetadata[m].loaded
  /\ \A m, n \in DOMAIN pluginMetadata :
       m # n => PluginTokens(PluginContent(m)) \cap PluginTokens(PluginContent(n)) = {}

\* C15: after a loadAll that started from an empty registry, ran undisturbed and had
\* no failed load, if the plugins' token sets are pairwise disjoint then the
\* registry holds exactly their tokens, as many as the sum of the plugins' token
\* counts, in whatever order the loads completed.
DisjointTokensAllRegistered ==
  (ret.op = "loadAll" /\ ret.alone /\ ~ret.failed /\ ret.pre = EmptyMap /\ DisjointTokens) =>
    /\ Cardinality(DOMAIN commands) = SumOfTokens(Len(pluginMetadata))
    /\ DOMAIN commands = UNION {PluginTokens(PluginContent(m)) : m \in DOMAIN pluginMetadata}
    /\ \A t \in DOMAIN commands : commands[t][1] \in Range(loadedPlugins)

\* C15 witness: two plugins with disjoint tokens were loaded by one loadAll, the
\* second descriptor's load completing first; the registry holds their four tokens
DisjointPairLoadedOutOfOrder ==
  /\ ret.op = "loadAll" /\ ret.alone /\ ~ret.failed /\ ret.pre = EmptyMap /\ DisjointTokens
  /\ Len(pluginMetadata) = 2
  /\ loadedPlugins = <<pluginMetadata[2].plugin, pluginMetadata[1].plugin>>
  /\ Cardinality(DOMAIN commands) = 4

\* how many "Command conflict" warnings of the log w name token t
RECURSIVE WarningsFor(_, _)
WarningsFor(w, t) ==
  IF w = <<>> THEN 0 ELSE (IF Head(w) = t THEN 1 ELSE 0) + WarningsFor(Tail(w), t)

\* the positions, in the completion order d, of the plugins that declare token t
Declaring(d, t) == {a \in DOMAIN d : t \in DeclaredTokens(PluginContent(d[a]))}

\* C16: after an undisturbed loadAll, for every token that was not in the registry
\* when it began and that two or more of the plugins it loaded declare, the
\* registry maps the token to a handler of the plugin whose load completed first,
\* and a collision warning naming the token was logged for each of the others.
CollisionFirstCompletedWins ==
  (ret.op = "loadAll" /\ ret.alone) =>
    \A t \in {ToLower(r) : r \in RawTokens} :
      (t \notin DOMAIN ret.pre /\ Cardinality(Declaring(ret.done, t)) >= 2) =>
        /\ t \in DOMAIN commands
        /\ commands[t][1] = pluginMetadata[ret.done[Min(Declaring(ret.done, t))]].plugin
        /\ WarningsFor(ret.warned, t) >= Cardinality(Declaring(ret.done, t)) - 1

\* C16 witness: ping and help both declare "p"; help's load, although it awaits an
\* init hook, completed first: "p" maps to help's handler and one warning names "p"
CollisionLaterDescriptorWon ==
  /\ ret.op = "loadAll" /\ ret.alone /\ ret.pre = EmptyMap
  /\ ret.done = <<2, 1>>
  /\ PluginContent(1) = 1 /\ PluginContent(2) = 2
  /\ commands[ToLower(TokP)][1] = pluginMetadata[2].plugin
  /\ ret.warned = <<ToLower(TokP)>>

\* two character codes are the same letter in either case, or the same character
SameChar(x, y) ==
  \/ x = y
  \/ x >= 65 /\ x <= 90 /\ y = x + 32
  \/ y >= 65 /\ y <= 90 /\ x = y + 32

\* two tokens differ at most in letter case
SameLetters(a, b) == Len(a) = Len(b) /\ \A i \in 1..Len(a) : SameChar(a[i], b[i])

\* the raw tokens of the commands list of content c, as written by the plugin
RawDeclaredTokens(c) ==
  UNION {{Contents[c].commands[k][j] : j \in DOMAIN Contents[c].commands[k]} :
           k \in DOMAIN Contents[c].commands}

\* the dispatches whose registry is still the one they looked the command up in
UndisturbedDispatches ==
  {ops[s] : s \in {x \in Slots : ops[x].op = "dispatch" /\ ops[x].alone}}
    \cup (IF ret.op = "dispatch" /\ ret.alone THEN {ret} ELSE {})

\* C17: lookup is case-insensitive.  No two registry keys differ only in letter
\* case; after an undisturbed loadAll every token of a commands list it registered
\* has a key that differs from it at most in letter case; and a message whose
\* command differs at most in letter case from a registry key is routed to the
\* handler registered under that key.
LookupIgnoresCase ==
  /\ \A t, u \in DOMAIN commands : SameLetters(t, u) => t = u
  /\ (ret.op = "loadAll" /\ ret.alone) =>
       \A a \in DOMAIN ret.done : \A r \in RawDeclaredTokens(PluginContent(ret.done[a])) :
         \E t \in DOMAIN commands : SameLetters(t, r)
  /\ \A d \in UndisturbedDispatches : \A t \in DOMAIN commands :
       (d.cmd # NoCommand /\ SameLetters(t, d.cmd)) =>
         /\ d.calls # <<>>
         /\ d.calls[1].kind = "command"
         /\ d.calls[1].h = commands[t]

\* C17 witness: ping registered "Q"; a message with command "q" is being handled by
\* ping's command handler
LowerCaseCommandReachedUpperCaseToken ==
  \E s \in Slots :
    /\ ops[s].op = "dispatch" /\ ops[s].alone /\ ops[s].pc = "command"
    /\ ops[s].cmd = TokQ
    /\ insts[ops[s].h[1]].content = 1
    /\ TokUpQ \in RawDeclaredTokens(1)

(***************************************************************************)
(***************************************************************************)
(* The process supervisor (src/src/monitor.ts).                            *)
(***************************************************************************)
(***************************************************************************)

\* workers the supervisor may spawn in one run
MaxWorkers == 3
\* events of the environment in one run: exits a worker makes of its own accord,
\* connections of a worker to the network, file changes the watch reports,
\* failures of kill and spawn
MaxEvents == 3
\* index.ts sends "ready" twice: at module level (line 204) and from startBot (line 191)
ReadySends == 2

\* exit codes: 0, 1, and null (terminated by a signal)
NullCode == 2

(***************************************************************************)
(* File names reported by the watch, relative to src.  They are strings,   *)
(* modelled as sequences of character codes, so that startsWith, includes  *)
(* and the extension pattern are computed on them.                         *)
(***************************************************************************)
\* "plugins/utility/ping.ts"
PluginFileA ==
  <<112, 108, 117, 103, 105, 110, 115, 47, 117, 116, 105, 108, 105, 116, 121, 47, 112,
    105, 110, 103, 46, 116, 115>>
\* "plugins/help.ts"
PluginFileB ==
  <<112, 108, 117, 103, 105, 110, 115, 47, 104, 101, 108, 112, 46, 116, 115>>
\* "index.ts"
EntryFile ==
  <<105, 110, 100, 101, 120, 46, 116, 115>>
\* "config.ts"
ConfigFile ==
  <<99, 111, 110, 102, 105, 103, 46, 116, 115>>
\* "lib/logger.ts"
LibFile ==
  <<108, 105, 98, 47, 108, 111, 103, 103, 101, 114, 46, 116, 115>>
\* "assets/logo.png"
AssetFile ==
  <<97, 115, 115, 101, 116, 115, 47, 108, 111, 103, 111, 46, 112, 110, 103>>
WatchedFiles == {PluginFileA, EntryFile, ConfigFile, LibFile, AssetFile}

\* "index.ts" path.basename(mainFile): the supervisor is started on src/index.ts
MainFileBase ==
  <<105, 110, 100, 101, 120, 46, 116, 115>>
\* "index.ts" the literal of line 193
IndexTs ==
  <<105, 110, 100, 101, 120, 46, 116, 115>>
\* "plugins/" path.join("plugins", path.sep)
PluginsPrefix ==
  <<112, 108, 117, 103, 105, 110, 115, 47>>
\* "node_modules"
NodeModulesWord ==
  <<110, 111, 100, 101, 95, 109, 111, 100, 117, 108, 101, 115>>
\* "config"
ConfigWord ==
  <<99, 111, 110, 102, 105, 103>>
\* ".ts"
ExtTs ==
  <<46, 116, 115>>
\* ".js"
ExtJs ==
  <<46, 106, 115>>

\* String.prototype.startsWith, includes, and a match of /suffix$/
StartsWith(str, pre) == Len(str) >= Len(pre) /\ SubSeq(str, 1, Len(pre)) = pre
EndsWith(str, suf) ==
  Len(str) >= Len(suf) /\ SubSeq(str, Len(str) - Len(suf) + 1, Len(str)) = suf
Includes(str, sub) ==
  \E i \in 1..(Len(str) - Len(sub) + 1) : SubSeq(str, i, i + Len(sub) - 1) = sub

\* line 169: node_modules and non-code files are skipped
Skipped(fn) ==
  \/ Includes(fn, NodeModulesWord)
  \/ ~(EndsWith(fn, ExtTs) \/ EndsWith(fn, ExtJs))

\* the classification with the configuration pattern left out
ClassifyWithoutConfig(fn) ==
  IF StartsWith(fn, PluginsPrefix)
  THEN "plugin"
  ELSE IF fn = MainFileBase \/ fn = IndexTs THEN "core" ELSE "other"

\* lines 182-212: "plugin", "core" or "other"
Classify(fn) ==
  IF StartsWith(fn, PluginsPrefix)
  THEN "plugin"
  ELSE IF fn = MainFileBase \/ fn = IndexTs \/ Includes(fn, ConfigWord)
       THEN "core"
       ELSE "other"


Running == -1
NoProc == 0
NoTimer == 0

Alive(w) == workers[w].st = "alive"
AliveWorkers == {w \in DOMAIN workers : Alive(w)}

\* the module state startApp and startAppProcess read and write
Mon ==
  [currentProcess |-> currentProcess, isRestarting |-> isRestarting,
   killRestart |-> killRestart, workers |-> workers, refused |-> refused, events |-> events,
   ignored |-> FALSE]

SetMon(m) ==
  /\ Len(m.workers) <= MaxWorkers
  /\ m.events <= MaxEvents
  /\ currentProcess' = m.currentProcess
  /\ isRestarting' = m.isRestarting
  /\ killRestart' = m.killRestart
  /\ workers' = m.workers
  /\ refused' = m.refused
  /\ ignored' = m.ignored
  /\ events' = m.events

\* spawn (line 96): the child runs the top level of index.ts, which sends the
\* first "ready" (index.ts line 204); or the spawn fails and the child's "error"
\* event (lines 139-142) runs on the next tick and resets currentProcess
NewWorker(ok) ==
  IF ok
  THEN [st |-> "alive", code |-> NullCode, nready |-> 1, inbox |-> <<"ready">>,
        boot |-> "starting"]
  ELSE [st |-> "failed", code |-> NullCode, nready |-> 0, inbox |-> <<>>, boot |-> "starting"]

StartAppProcessUnchecked(m, ok) ==
  [m EXCEPT !.workers = Append(@, NewWorker(ok)),
            !.currentProcess = IF ok THEN Len(m.workers) + 1 ELSE NoProc,
            !.events = IF ok THEN @ ELSE @ + 1]

StartAppProcess(m, ok) ==
  IF isShuttingDown
  THEN [m EXCEPT !.refused = TRUE]
  ELSE [m EXCEPT !.workers = Append(@, NewWorker(ok)),
                 !.currentProcess = IF ok THEN Len(m.workers) + 1 ELSE NoProc,
                 !.events = IF ok THEN @ ELSE @ + 1]

\* startApp with the guard of lines 34-37 left out
StartAppUngated(m, ok) ==
  IF m.currentProcess # NoProc
  THEN [m EXCEPT !.isRestarting = TRUE, !.killRestart = @ \cup {m.currentProcess}]
  ELSE [StartAppProcess([m EXCEPT !.isRestarting = TRUE], ok) EXCEPT !.isRestarting = FALSE]

\* startApp spawning the replacement without waiting for the kill
StartAppNoWait(m, ok) ==
  IF m.isRestarting
  THEN [m EXCEPT !.ignored = TRUE]
  ELSE [StartAppProcess([m EXCEPT !.isRestarting = TRUE], ok) EXCEPT !.isRestarting = FALSE]

StartApp(m, ok) ==
  IF m.isRestarting
  THEN [m EXCEPT !.ignored = TRUE]
  ELSE IF m.currentProcess # NoProc
       THEN [m EXCEPT !.isRestarting = TRUE, !.killRestart = @ \cup {m.currentProcess}]
       ELSE [StartAppProcess([m EXCEPT !.isRestarting = TRUE], ok) EXCEPT !.isRestarting = FALSE]

\* SIGTERM reaches the process tree of worker w
Killed(ws, w) ==
  IF ws[w].st = "alive" THEN [ws EXCEPT ![w].st = "exited", ![w].code = NullCode] ELSE ws

\* clearTimeout(id)
ClearTimeoutNoop(pending, id) == pending
ClearTimeout(pending, id) == {t \in pending : t.id # id}

\* line 130
CrashDetectedNever(code) == FALSE
CrashDetected(code) == code # 0 /\ ~isRestarting /\ ~isShuttingDown

(***************************************************************************)
(* Init: the state after monitor.ts ran its top level, whose startApp      *)
(* (line 288) spawned the first worker.                                    *)
(***************************************************************************)
SupInit ==
  /\ currentProcess = 1
  /\ fileWatchers = <<>>
  /\ isRestarting = FALSE
  /\ debounceTimer = NoTimer
  /\ isShuttingDown = FALSE
  /\ debouncePending = {}
  /\ crashTimers = 0
  /\ restartTimers = 0
  /\ forceExitTimer = FALSE
  /\ killRestart = {}
  /\ killShutdown = NoProc
  /\ monitorExit = Running
  /\ workers = <<NewWorker(TRUE)>>
  /\ sent = <<>>
  /\ events = 0
  /\ cleanExit = FALSE
  /\ refused = FALSE
  /\ ignored = FALSE

(***************************************************************************)
(* The worker's side of the channel (src/src/index.ts).                    *)
(***************************************************************************)
\* startBot, lines 180-192: the plugins are loaded and the network client has
\* connected, and the worker sends its second "ready"
WorkerReady(w) ==
  /\ UNCHANGED loaderVars
  /\ ignored' = FALSE
  /\ monitorExit = Running
  /\ Alive(w)
  /\ workers[w].nready < ReadySends
  /\ events < MaxEvents
  /\ events' = events + 1
  /\ workers' = [workers EXCEPT ![w].nready = @ + 1, ![w].inbox = Append(@, "ready"),
                                ![w].boot = "connected"]
  /\ UNCHANGED <<currentProcess, fileWatchers, isRestarting, debounceTimer, isShuttingDown,
                 debouncePending, crashTimers, restartTimers, forceExitTimer, killRestart,
                 killShutdown, monitorExit, sent, cleanExit, refused>>

\* handleError, lines 122-133: send "restart", then exit with code 1
WorkerFatal(w) ==
  /\ UNCHANGED loaderVars
  /\ ignored' = FALSE
  /\ monitorExit = Running
  /\ Alive(w)
  /\ events < MaxEvents
  /\ events' = events + 1
  /\ workers' = [workers EXCEPT ![w].st = "exited", ![w].code = 1,
                                ![w].inbox = Append(@, "restart")]
  /\ cleanExit' = FALSE
  /\ UNCHANGED <<currentProcess, fileWatchers, isRestarting, debounceTimer, isShuttingDown,
                 debouncePending, crashTimers, restartTimers, forceExitTimer, killRestart,
                 killShutdown, monitorExit, sent, refused>>

\* the worker ends without handleError: a clean exit, or a signal from outside
WorkerExit(w, code) ==
  /\ UNCHANGED loaderVars
  /\ ignored' = FALSE
  /\ monitorExit = Running
  /\ Alive(w)
  /\ events < MaxEvents
  /\ events' = events + 1
  /\ workers' = [workers EXCEPT ![w].st = "exited", ![w].code = code]
  /\ cleanExit' = FALSE
  /\ UNCHANGED <<currentProcess, fileWatchers, isRestarting, debounceTimer, isShuttingDown,
                 debouncePending, crashTimers, restartTimers, forceExitTimer, killRestart,
                 killShutdown, monitorExit, sent, refused>>

(***************************************************************************)
(* The supervisor's handlers (src/src/monitor.ts).                         *)
(***************************************************************************)
\* setupFileWatchers, lines 152-217: close the open watches, open one for proc
SetupFileWatchers(w) == <<w>>

\* proc.on("message"), lines 100-112
DeliverMessage(w, ok) ==
  /\ UNCHANGED loaderVars
  /\ monitorExit = Running
  /\ workers[w].inbox # <<>>
  /\ LET msg == Head(workers[w].inbox)
         m0 == [Mon EXCEPT !.workers[w].inbox = Tail(@)]
     IN IF msg = "restart"
        THEN /\ SetMon(StartApp(m0, ok))
             /\ UNCHANGED fileWatchers
        ELSE /\ SetMon(m0)
             /\ fileWatchers' = SetupFileWatchers(w)
  /\ cleanExit' = FALSE
  /\ UNCHANGED <<debounceTimer, isShuttingDown, debouncePending, crashTimers, restartTimers,
                 forceExitTimer, killShutdown, monitorExit, sent>>

\* proc.on("exit"), lines 114-136
DeliverExit(w) ==
  /\ UNCHANGED loaderVars
  /\ ignored' = FALSE
  /\ monitorExit = Running
  /\ workers[w].st = "exited"
  /\ workers' = [workers EXCEPT ![w].st = "reaped"]
  /\ IF isShuttingDown
     THEN UNCHANGED <<currentProcess, fileWatchers, crashTimers, cleanExit>>
     ELSE /\ currentProcess' = NoProc
          /\ fileWatchers' = <<>>
          /\ crashTimers' = IF CrashDetected(workers[w].code) THEN crashTimers + 1 ELSE crashTimers
          /\ cleanExit' = IF workers[w].code = 0 /\ ~isRestarting /\ currentProcess = w
                          THEN TRUE ELSE cleanExit
  /\ UNCHANGED <<isRestarting, debounceTimer, isShuttingDown, debouncePending, restartTimers,
                 forceExitTimer, killRestart, killShutdown, monitorExit, sent, refused,
                 events>>

\* the callback of startApp's treeKill, lines 43-60
KillCallback(w, err) ==
  /\ UNCHANGED loaderVars
  /\ ignored' = FALSE
  /\ monitorExit = Running
  /\ w \in killRestart
  /\ err => events < MaxEvents
  /\ events' = IF err THEN events + 1 ELSE events
  /\ workers' = IF err THEN workers ELSE Killed(workers, w)
  /\ killRestart' = killRestart \ {w}
  /\ currentProcess' = NoProc
  /\ restartTimers' = restartTimers + 1
  /\ UNCHANGED <<fileWatchers, isRestarting, debounceTimer, isShuttingDown, debouncePending,
                 crashTimers, forceExitTimer, killShutdown, monitorExit, sent, cleanExit,
                 refused>>

\* the 1000 ms timer reopening the gate only when it goes on to spawn
RestartTimerFiresGateOnSpawn(ok) ==
  /\ UNCHANGED loaderVars
  /\ monitorExit = Running
  /\ restartTimers > 0
  /\ restartTimers' = restartTimers - 1
  /\ SetMon(StartAppProcess([Mon EXCEPT !.isRestarting = isShuttingDown], ok))
  /\ UNCHANGED <<fileWatchers, debounceTimer, isShuttingDown, debouncePending, crashTimers,
                 forceExitTimer, killShutdown, monitorExit, sent, cleanExit>>

\* the 1000 ms timer of lines 48-51 and 55-58
RestartTimerFires(ok) ==
  /\ UNCHANGED loaderVars
  /\ monitorExit = Running
  /\ restartTimers > 0
  /\ restartTimers' = restartTimers - 1
  /\ SetMon(StartAppProcess([Mon EXCEPT !.isRestarting = FALSE], ok))
  /\ UNCHANGED <<fileWatchers, debounceTimer, isShuttingDown, debouncePending, crashTimers,
                 forceExitTimer, killShutdown, monitorExit, sent, cleanExit>>

\* the 5000 ms timer of lines 132-134
CrashTimerFires(ok) ==
  /\ UNCHANGED loaderVars
  /\ monitorExit = Running
  /\ crashTimers > 0
  /\ crashTimers' = crashTimers - 1
  /\ SetMon(StartApp(Mon, ok))
  /\ UNCHANGED <<fileWatchers, debounceTimer, isShuttingDown, debouncePending, restartTimers,
                 forceExitTimer, killShutdown, monitorExit, sent, cleanExit>>

\* the file name the timer's callback closes over: the one of the event that set
\* the timer (line 163); the other definition keeps the one of the window's first event
TimerFileFirst(cleared, fn) == IF cleared = {} THEN fn ELSE (CHOOSE t \in cleared : TRUE).file
TimerFile(cleared, fn) == fn

\* no file: the timer replaced no pending timer
NoFile == <<>>

\* the watch callback, lines 163-180 and 213: event number `events + 1` on watch i
FileEvent(i, fn) ==
  /\ UNCHANGED loaderVars
  /\ ignored' = FALSE
  /\ monitorExit = Running
  /\ i \in DOMAIN fileWatchers
  /\ events < MaxEvents
  /\ events' = events + 1
  /\ cleanExit' = FALSE
  /\ IF isShuttingDown \/ Skipped(fn)
     THEN UNCHANGED <<debounceTimer, debouncePending>>
     ELSE LET cleared == {t \in debouncePending : t.id = debounceTimer}
              n == IF \E t \in cleared : t.file = fn
                   THEN (CHOOSE t \in cleared : TRUE).n + 1 ELSE 1
          IN /\ debounceTimer' = events + 1
             /\ debouncePending' =
                  ClearTimeout(debouncePending, debounceTimer)
                    \cup {[id |-> events + 1, proc |-> fileWatchers[i],
                           file |-> TimerFile(cleared, fn), n |-> n,
                           over |-> IF cleared = {} THEN NoFile
                                    ELSE (CHOOSE t \in cleared : TRUE).file]}
  /\ UNCHANGED <<currentProcess, fileWatchers, isRestarting, isShuttingDown, crashTimers,
                 restartTimers, forceExitTimer, killRestart, killShutdown, monitorExit,
                 workers, sent, refused>>

\* proc && proc.connected, lines 185 and 204: the channel is open while the child
\* runs; the other definition takes it to be always open
ConnectedAlways(w) == TRUE
Connected(w) == Alive(w)

\* proc.send, lines 186 and 205
Instruction(t, type) ==
  [to |-> t.proc, type |-> type, file |-> t.file, n |-> t.n, over |-> t.over]

\* the debounce timer's callback, lines 180-213
DebounceFires(t, ok) ==
  /\ UNCHANGED loaderVars
  /\ monitorExit = Running
  /\ t \in debouncePending
  /\ debouncePending' = debouncePending \ {t}
  /\ LET kind == Classify(t.file)
     IN IF kind = "core"
        THEN /\ SetMon(StartApp(Mon, ok))
             /\ UNCHANGED sent
        ELSE /\ SetMon(Mon)
             /\ sent' = IF Connected(t.proc)
                        THEN Append(sent, Instruction(t, IF kind = "plugin"
                                                         THEN "reloadPlugin" ELSE "fileChanged"))
                        ELSE sent
  /\ UNCHANGED <<fileWatchers, debounceTimer, isShuttingDown, crashTimers, restartTimers,
                 forceExitTimer, killShutdown, monitorExit, cleanExit>>

\* gracefulShutdown on SIGINT or SIGTERM, lines 239-280
GracefulShutdown ==
  /\ UNCHANGED loaderVars
  /\ ignored' = FALSE
  /\ monitorExit = Running
  /\ ~isShuttingDown
  /\ isShuttingDown' = TRUE
  /\ debouncePending' = ClearTimeout(debouncePending, debounceTimer)
  /\ debounceTimer' = NoTimer
  /\ fileWatchers' = <<>>
  /\ cleanExit' = FALSE
  /\ IF currentProcess # NoProc
     THEN /\ forceExitTimer' = TRUE
          /\ killShutdown' = currentProcess
          /\ UNCHANGED monitorExit
     ELSE /\ monitorExit' = 0
          /\ UNCHANGED <<forceExitTimer, killShutdown>>
  /\ UNCHANGED <<currentProcess, isRestarting, crashTimers, restartTimers, killRestart,
                 workers, sent, refused, events>>

\* the callback of gracefulShutdown's treeKill, lines 265-275
ShutdownKillCallback(err) ==
  /\ UNCHANGED loaderVars
  /\ ignored' = FALSE
  /\ monitorExit = Running
  /\ killShutdown # NoProc
  /\ err => events < MaxEvents
  /\ events' = IF err THEN events + 1 ELSE events
  /\ workers' = IF err THEN workers ELSE Killed(workers, killShutdown)
  /\ killShutdown' = NoProc
  /\ forceExitTimer' = FALSE
  /\ monitorExit' = 0
  /\ UNCHANGED <<currentProcess, fileWatchers, isRestarting, debounceTimer, isShuttingDown,
                 debouncePending, crashTimers, restartTimers, killRestart, sent, cleanExit,
                 refused>>

\* the force-exit timer, lines 260-263
ForceExit ==
  /\ UNCHANGED loaderVars
  /\ ignored' = FALSE
  /\ monitorExit = Running
  /\ forceExitTimer
  /\ forceExitTimer' = FALSE
  /\ monitorExit' = 1
  /\ UNCHANGED <<currentProcess, fileWatchers, isRestarting, debounceTimer, isShuttingDown,
                 debouncePending, crashTimers, restartTimers, killRestart, killShutdown,
                 workers, sent, cleanExit, refused, events>>

WorkerIds == 1..MaxWorkers
ExitCodes == {0, NullCode}

SupNext ==
  \/ \E w \in DOMAIN workers : WorkerReady(w)
  \/ \E w \in DOMAIN workers : WorkerFatal(w)
  \/ \E w \in DOMAIN workers, code \in ExitCodes : WorkerExit(w, code)
  \/ \E w \in DOMAIN workers, ok \in BOOLEAN : DeliverMessage(w, ok)
  \/ \E w \in DOMAIN workers : DeliverExit(w)
  \/ \E w \in DOMAIN workers, err \in BOOLEAN : KillCallback(w, err)
  \/ \E ok \in BOOLEAN : RestartTimerFires(ok)
  \/ \E ok \in BOOLEAN : CrashTimerFires(ok)
  \/ \E i \in DOMAIN fileWatchers, fn \in WatchedFiles : FileEvent(i, fn)
  \/ \E t \in debouncePending, ok \in BOOLEAN : DebounceFires(t, ok)
  \/ GracefulShutdown
  \/ ShutdownKillCallback(FALSE)
  \/ ShutdownKillCallback(TRUE)
  \/ ForceExit

(***************************************************************************)
(* The specifications.  The engine runs inside a worker and the supervisor *)
(* above it; each is explored with the other at rest.                      *)
(***************************************************************************)
LoaderAtRest ==
  /\ LoaderInit
  /\ disk = CHOOSE d \in InitialDisks : TRUE

Init == LoaderInit /\ SupInit

Spec == Init /\ [][Next]_vars

\* the engine with a caller that takes snapshots of the registry
SnapshotNext ==
  \/ Next
  \/ GetCommands
  \/ \E t \in {ToLower(r) : r \in RawTokens} : ModifySnapshot(t)

SnapshotSpec == Init /\ [][SnapshotNext]_vars

SupStart == LoaderAtRest /\ SupInit

SupSpec == SupStart /\ [][SupNext]_vars

SupFairness ==
  /\ WF_vars(\E w \in WorkerIds : KillCallback(w, FALSE))
  /\ WF_vars(\E ok \in BOOLEAN : RestartTimerFires(ok))
  /\ WF_vars(\E ok \in BOOLEAN : CrashTimerFires(ok))

SupFairSpec == SupSpec /\ SupFairness

(***************************************************************************)
(* Claims about the supervisor.                                            *)
(***************************************************************************)

\* C5: at every moment at most one worker spawned by the supervisor is alive,
\* for every interleaving of restart messages, exit events (the late exit event
\* of a worker killed for replacement included), crash-backoff timers and
\* debounced core-file changes.
AtMostOneWorkerAlive == Cardinality(AliveWorkers) <= 1

NoSpawnAfterCleanExit ==
  [][(cleanExit /\ cleanExit') => (AliveWorkers' \subseteq AliveWorkers)]_vars

\* C8: once isShuttingDown is set it stays set and no worker is spawned, whatever
\* timer, message, exit event or start request runs later.
ShutdownIsTerminal ==
  [][isShuttingDown => (isShuttingDown' /\ Len(workers') = Len(workers))]_vars

\* C8 witness: during shutdown startAppProcess was asked to spawn and refused.
ShutdownRefusedSpawn == isShuttingDown /\ refused

\* C9: the events of a burst are coalesced into one pending timer, an event sends
\* nothing itself, and the timer's callback for a plugin file sends exactly one
\* reloadPlugin for that file to a connected worker and leaves no timer behind.
DebounceCoalesces ==
  /\ [](Cardinality(debouncePending) <= 1)
  /\ [][\A i \in DOMAIN fileWatchers, fn \in WatchedFiles :
          FileEvent(i, fn) => sent' = sent]_vars
  /\ [][\A t \in debouncePending :
          ((\E ok \in BOOLEAN : DebounceFires(t, ok))
             /\ Classify(t.file) = "plugin" /\ Alive(t.proc))
            => /\ sent' = Append(sent, [to |-> t.proc, type |-> "reloadPlugin",
                                        file |-> t.file, n |-> t.n, over |-> t.over])
               /\ debouncePending' = {}]_vars

\* C9 witness: three events for the same plugin file were answered by one
\* reloadPlugin, the only instruction sent.
BurstOfThreeOneReload ==
  /\ events = 3
  /\ Len(sent) = 1
  /\ sent[1].type = "reloadPlugin" /\ sent[1].file = PluginFileA /\ sent[1].n = 3
  /\ debouncePending = {}

\* a step in which a start request reaches startApp: the worker's "restart"
\* message is taken from the channel, a crash-backoff timer fires, or the debounce
\* timer of a core-file change fires (it leaves the pending timers without having
\* been cleared by a later change or by the shutdown)
StartRequestArrives ==
  \/ \E w \in DOMAIN workers :
       /\ workers[w].inbox # <<>> /\ Head(workers[w].inbox) = "restart"
       /\ w \in DOMAIN workers' /\ workers'[w].inbox = Tail(workers[w].inbox)
  \/ crashTimers' = crashTimers - 1
  \/ \E t \in debouncePending :
       /\ Classify(t.file) = "core"
       /\ debouncePending' = debouncePending \ {t}
       /\ debounceTimer' = debounceTimer

\* C18: a start request that arrives while isRestarting is true is dropped: the
\* step spawns nothing, kills nothing, leaves the supervisor's variables, the open
\* watches and every worker's status as they are, and leaves no timer or pending
\* kill behind that could act on the request later.
RestartFlagIsGate ==
  [][(isRestarting /\ StartRequestArrives) =>
       /\ UNCHANGED <<currentProcess, isRestarting, isShuttingDown, debounceTimer, fileWatchers,
                      killRestart, killShutdown, restartTimers, forceExitTimer, monitorExit,
                      sent>>
       /\ Len(workers') = Len(workers)
       /\ \A w \in DOMAIN workers :
            workers'[w].st = workers[w].st /\ workers'[w].code = workers[w].code
       /\ crashTimers' <= crashTimers
       /\ debouncePending' \subseteq debouncePending]_vars

\* C18 witness: startApp just ignored a request that arrived after the old worker's
\* termination was confirmed and before the replacement was spawned
RequestIgnoredBeforeRespawn ==
  ignored /\ isRestarting /\ currentProcess = NoProc /\ restartTimers = 1

\* C19: replace ordering.  A start request that finds a worker running only
\* requests its termination and sets isRestarting, spawning nothing; the 1 s timer
\* is set only by the callback of a requested kill; while isRestarting holds a
\* worker is spawned only when that timer fires, with no kill outstanding and
\* currentProcess reset.  A start request that finds no worker running spawns at
\* once.
ReplaceOrdering ==
  [][/\ (StartRequestArrives /\ ~isRestarting /\ currentProcess # NoProc) =>
          /\ Len(workers') = Len(workers)
          /\ killRestart' = killRestart \cup {currentProcess}
          /\ isRestarting' /\ restartTimers' = restartTimers
     /\ (killRestart' \ killRestart # {}) =>
          (StartRequestArrives /\ ~isRestarting /\ killRestart' \ killRestart = {currentProcess})
     /\ (restartTimers' > restartTimers) =>
          /\ \E w \in killRestart : killRestart' = killRestart \ {w}
          /\ Len(workers') = Len(workers)
     /\ (Len(workers') > Len(workers)) =>
          /\ currentProcess = NoProc /\ killRestart = {}
          /\ isRestarting => (restartTimers > 0 /\ restartTimers' = restartTimers - 1)
     /\ (StartRequestArrives /\ ~isRestarting /\ currentProcess = NoProc /\ ~isShuttingDown) =>
          Len(workers') = Len(workers) + 1]_vars

\* C19 witness: worker 1 asked for a restart while it was running; its kill was
\* requested and called back, the timer fired, and only then worker 2 was spawned
ReplacementSpawnedAfterKill ==
  /\ Len(workers) = 2 /\ currentProcess = 2 /\ Alive(2)
  /\ workers[1].st = "reaped" /\ workers[1].code = 1 /\ workers[1].inbox = <<>>
  /\ ~isRestarting /\ killRestart = {} /\ restartTimers = 0 /\ crashTimers = 0
  /\ events = 1

\* C20: a worker has sent "ready" only if its startBot has completed discovery
\* and loadAll and has connected.
ReadyOnlyAfterStartup ==
  \A w \in DOMAIN workers : workers[w].nready > 0 => workers[w].boot = "connected"

\* the debounce timer t fires in this step: it leaves the pending timers without
\* having been cleared by a later change or by the shutdown
Fires(t) ==
  /\ t \in debouncePending
  /\ debouncePending' = debouncePending \ {t}
  /\ debounceTimer' = debounceTimer

\* the instruction the firing of timer t sends over a connected channel
InstructionOf(t) ==
  Instruction(t, IF Classify(t.file) = "plugin" THEN "reloadPlugin" ELSE "fileChanged")

\* C21: when the debounce timer of a plugin or other file fires while the channel
\* to its worker is not connected, nothing is sent in that step; and an
\* instruction is only ever sent in the step in which its timer fires with the
\* channel connected, to the worker of that watch, so a dropped instruction
\* reaches no worker later.
DisconnectedInstructionDropped ==
  [][/\ \A t \in debouncePending :
          (Fires(t) /\ Classify(t.file) # "core" /\ ~Alive(t.proc)) => sent' = sent
     /\ (sent' # sent) =>
          \E t \in debouncePending :
            /\ Fires(t) /\ Classify(t.file) # "core" /\ Alive(t.proc)
            /\ sent' = Append(sent, InstructionOf(t))]_vars

\* C21 witness: the only worker is gone, the debounce timer of a change seen on its
\* watch has fired, and nothing was sent
ChangeFiredAfterWorkerGone ==
  /\ Len(workers) = 1 /\ ~Alive(1)
  /\ debounceTimer # NoTimer /\ debouncePending = {}
  /\ sent = <<>>
  /\ ~isShuttingDown /\ ~isRestarting /\ ~ignored

\* the step neither spawns nor kills nor touches the restart state
NoRestartStep ==
  /\ UNCHANGED <<currentProcess, isRestarting, killRestart, restartTimers>>
  /\ workers' = workers

\* the step is what startApp does: nothing while restarting, else the kill of the
\* running worker is requested, else a worker is spawned (unless shutting down)
StartStep ==
  IF isRestarting
  THEN NoRestartStep
  ELSE IF currentProcess # NoProc
       THEN /\ isRestarting' /\ killRestart' = killRestart \cup {currentProcess}
            /\ Len(workers') = Len(workers)
       ELSE isShuttingDown \/ Len(workers') = Len(workers) + 1

\* C22: when the debounce timer of a change fires, a file under plugins/ has
\* reloadPlugin with its path sent to the worker of the watch (if connected) and
\* nothing restarts; the entry file and config.ts go to startApp and nothing is
\* sent; another code file has fileChanged sent and nothing restarts.
ChangeClassification ==
  [][\A t \in debouncePending : Fires(t) =>
       /\ t.file \in {PluginFileA, PluginFileB} =>
            /\ sent' = IF Alive(t.proc) THEN Append(sent, Instruction(t, "reloadPlugin"))
                       ELSE sent
            /\ NoRestartStep
       /\ t.file \in {EntryFile, ConfigFile} => (sent' = sent /\ StartStep)
       /\ t.file = LibFile =>
            /\ sent' = IF Alive(t.proc) THEN Append(sent, Instruction(t, "fileChanged"))
                       ELSE sent
            /\ NoRestartStep
       /\ t.file \in {PluginFileA, PluginFileB, EntryFile, ConfigFile, LibFile}]_vars

\* C22 witness: a change of lib/logger.ts was notified to the running worker, then a
\* change of the entry file or of config.ts had its termination requested
OtherNotifiedThenConfigRestarts ==
  /\ sent = <<[to |-> 1, type |-> "fileChanged", file |-> LibFile, n |-> 1, over |-> NoFile]>>
  /\ Alive(1) /\ workers[1].inbox = <<>> /\ workers[1].nready = 1
  /\ isRestarting /\ killRestart = {1} /\ crashTimers = 0
  /\ debouncePending = {} /\ events = 2

\* C23: the step that begins the shutdown leaves no debounce timer pending and no
\* watch open and requests the termination of the current worker under the 5 s
\* bound; the supervisor exits with code 1 only on the shutdown's forced path, and
\* with code 0 only if no worker is left running under it.
ShutdownOutcome ==
  /\ [][(~isShuttingDown /\ isShuttingDown') =>
          /\ debouncePending' = {} /\ debounceTimer' = NoTimer /\ fileWatchers' = <<>>
          /\ currentProcess # NoProc =>
               (killShutdown' = currentProcess /\ forceExitTimer' /\ monitorExit' = Running)]_vars
  /\ [](monitorExit = 1 => isShuttingDown)
  /\ [](monitorExit = 0 => (currentProcess = NoProc \/ ~Alive(currentProcess)))

\* C24: after the callback of a failed kill the 1 s timer is pending, and while it
\* is pending a new worker is eventually spawned unless shutdown begins; and after
\* a worker failed to spawn a new worker is eventually spawned unless shutdown
\* begins.
ErrorsDoNotStopRecovery ==
  /\ [][\A w \in killRestart :
          (killRestart' = killRestart \ {w} /\ workers' = workers) =>
            restartTimers' = restartTimers + 1]_vars
  /\ \A n \in 1..(MaxWorkers - 1) :
       (restartTimers > 0 /\ Len(workers) = n) ~> (Len(workers) > n \/ isShuttingDown)
  /\ \A n \in 1..(MaxWorkers - 1) :
       (Len(workers) = n /\ workers[n].st = "failed")
         ~> (Len(workers) > n \/ isShuttingDown)

(***************************************************************************)
(* Properties of registration, unload, discovery and reload.               *)
(***************************************************************************)

\* the handler of plugin object i, made from content c, that registerCommands
\* reaches first with token n: the least handler of plugin.commands declaring it
FirstDeclaring(i, c, n) ==
  <<i, Min({k \in DOMAIN Contents[c].commands :
              \E j \in DOMAIN Contents[c].commands[k] : ToLower(Contents[c].commands[k][j]) = n})>>

\* the "Command conflict" log and the failure flag of operation s after a step
WarnedAfter(s) == IF ops'[s].op = "idle" THEN ret'.warned ELSE ops'[s].warned
FailedAfter(s) == IF ops'[s].op = "idle" THEN ret'.failed ELSE ops'[s].failed

\* C25: per-token best-effort registration.  In the step that registers the
\* commands list of a plugin (the step that marks its descriptor Loaded), every
\* declared token already in the registry is skipped, its mapping left as it was,
\* and every other declared token is mapped to the plugin's handler declaring it;
\* and a step of a load that logs a conflict warning raises no error: the
\* operation's failure flag is unchanged and it does not reject.
BestEffortRegistration ==
  /\ [][\A m \in DOMAIN pluginMetadata :
          (~pluginMetadata[m].loaded /\ pluginMetadata'[m].loaded) =>
            LET i == pluginMetadata'[m].plugin
                c == insts'[i].content
            IN \A n \in DeclaredTokens(c) :
                 /\ n \in DOMAIN commands'
                 /\ n \in DOMAIN commands => commands'[n] = commands[n]
                 /\ n \notin DOMAIN commands => commands'[n] = FirstDeclaring(i, c, n)]_loaderVars
  /\ [][\A s \in Slots :
          (ops[s].op \in {"loadAll", "reload"} /\ Len(WarnedAfter(s)) > Len(ops[s].warned)) =>
            /\ FailedAfter(s) = ops[s].failed
            /\ ret'.res # "throw"]_loaderVars

\* C25 witness: help was loaded before ping; of ping's handler ["p","Q"] the token
\* "p" was skipped with a warning and stays help's, "q" was registered to ping's
\* handler, and the load did not fail
SkippedTokenOthersRegistered ==
  /\ ret.op = "loadAll" /\ ~ret.failed /\ ret.res = "true"
  /\ ret.warned = <<TokP>>
  /\ Len(loadedPlugins) = 2
  /\ insts[loadedPlugins[1]].content = 2 /\ insts[loadedPlugins[2]].content = 1
  /\ commands[TokP] = <<loadedPlugins[1], 1>>
  /\ commands[TokQ] = <<loadedPlugins[2], 1>>

\* the descriptor an unloadPlugin call that just returned was about, 0 when the
\* location was unknown, looked up in the store as it was before the call
UnloadTarget == FindMeta(pluginMetadata, [f |-> ret'.f, norm |-> TRUE])

\* C26: an unload of an unknown location or of an Unloaded descriptor returns
\* false and leaves the registry, the loaded-plugin list and the metadata store as
\* they were; an unload that returns true keeps every descriptor in the store, the
\* one it unloaded now not loaded and without a plugin object.
UnloadFrame ==
  [][ret'.op = "unload" =>
       /\ (UnloadTarget = 0 \/ ~pluginMetadata[UnloadTarget].loaded) =>
            /\ ret'.res = "false"
            /\ UNCHANGED <<commands, loadedPlugins, pluginMetadata>>
       /\ ret'.res = "true" =>
            /\ UnloadTarget # 0
            /\ Len(pluginMetadata') = Len(pluginMetadata)
            /\ \A k \in DOMAIN pluginMetadata :
                 /\ pluginMetadata'[k].filePath = pluginMetadata[k].filePath
                 /\ k # UnloadTarget => pluginMetadata'[k] = pluginMetadata[k]
            /\ ~pluginMetadata'[UnloadTarget].loaded
            /\ pluginMetadata'[UnloadTarget].plugin = NoInst]_loaderVars

\* C26 witness: ping was loaded and unloaded, and a second unload of it returned
\* false while help is still loaded and its token registered
SecondUnloadRefused ==
  /\ ret.op = "unload" /\ ret.res = "false"
  /\ FindMeta(pluginMetadata, [f |-> ret.f, norm |-> TRUE]) # 0
  /\ moduleCache[ret.f] # NoContent
  /\ loadedPlugins # <<>>
  /\ TokH \in DOMAIN commands

\* C27: the metadata store holds at most one descriptor per normalized location.
OneDescriptorPerLocation ==
  \A i, j \in DOMAIN pluginMetadata :
    PathNormalize(pluginMetadata[i].filePath) = PathNormalize(pluginMetadata[j].filePath)
      => i = j

\* C28: every descriptor has as category the name of the immediate subdirectory
\* of the plugins root its module lies under, at any depth, and none for a module
\* directly in the root: the category reloadPlugin infers for the same location,
\* whether discovery or reload created the descriptor.
CategoryIsTopLevelDirectory ==
  \A m \in DOMAIN pluginMetadata :
    pluginMetadata[m].category = ReloadCategory(pluginMetadata[m].filePath)

\* operation s took a step of its own load: a loadPlugin call of it went on or
\* the operation returned
OwnLoadStep(s) == ops'[s].loads # ops[s].loads \/ ops'[s].op = "idle"

\* C29: a reload of a location that is not in the store and whose file exists
\* appends exactly one descriptor for the normalized location, not loaded and
\* without plugin object, and calls loadPlugin for it alone, changing neither the
\* registry nor the loaded-plugin list in that step; the steps of its load change
\* no other descriptor, remove or remap no registered token and remove no loaded
\* plugin, and when the load did not fail the new descriptor is Loaded.  A reload
\* of a location not in the store whose file does not exist returns false and
\* leaves registry, store and loaded-plugin list unchanged.
ReloadUnknownFrame ==
  /\ [][\A s \in Slots :
          (ops[s].op = "idle" /\ ops'[s].op = "reload" /\ ops'[s].was = "unknown") =>
            /\ Len(pluginMetadata') = Len(pluginMetadata) + 1
            /\ SubSeq(pluginMetadata', 1, Len(pluginMetadata)) = pluginMetadata
            /\ FindMeta(pluginMetadata, [f |-> ops'[s].f, norm |-> TRUE]) = 0
            /\ LET d == pluginMetadata'[Len(pluginMetadata')]
               IN /\ d.filePath = [f |-> ops'[s].f, norm |-> TRUE]
                  /\ ~d.loaded /\ d.plugin = NoInst
            /\ ops'[s].loads = {[m |-> Len(pluginMetadata'), pc |-> "import", inst |-> NoInst]}
            /\ UNCHANGED <<commands, loadedPlugins>>]_loaderVars
  /\ [][\A s \in Slots :
          (ops[s].op = "reload" /\ ops[s].was = "unknown" /\ OwnLoadStep(s)) =>
            /\ Len(pluginMetadata') = Len(pluginMetadata)
            /\ \A k \in DOMAIN pluginMetadata :
                 k # ops[s].m => pluginMetadata'[k] = pluginMetadata[k]
            /\ \A t \in DOMAIN commands : t \in DOMAIN commands' /\ commands'[t] = commands[t]
            /\ Len(loadedPlugins') >= Len(loadedPlugins)
            /\ SubSeq(loadedPlugins', 1, Len(loadedPlugins)) = loadedPlugins
            /\ (ops'[s].op = "idle" /\ ~ret'.failed) => pluginMetadata'[ops[s].m].loaded]_loaderVars
  /\ [][(ret'.op = "reload" /\ FindMeta(pluginMetadata, [f |-> ret'.f, norm |-> TRUE]) = 0) =>
          /\ disk[ret'.f] = NoContent
          /\ ret'.res = "false"
          /\ UNCHANGED <<commands, pluginMetadata, loadedPlugins>>]_loaderVars

\* C29 witness: with ping loaded from a descriptor of its own, a reload of help's
\* location, which was not in the store, returned: help's descriptor is the second
\* and last, it is Loaded, and ping's descriptor and tokens are as they were
UnknownLocationAddedAndLoaded ==
  /\ ret.op = "reload" /\ ret.was = "unknown" /\ ret.res = "true" /\ ~ret.failed
  /\ ret.m = 2 /\ Len(pluginMetadata) = 2
  /\ pluginMetadata[1].loaded /\ PluginContent(1) = 1
  /\ pluginMetadata[2].loaded /\ PluginContent(2) = 2
  /\ TokP \in DOMAIN ret.pre /\ ret.pre[TokP].h = commands[TokP]
  /\ commands[TokP][1] = pluginMetadata[1].plugin
  /\ commands[TokH][1] = pluginMetadata[2].plugin

\* the descriptors that are not loaded
NotLoaded == {m \in DOMAIN pluginMetadata : ~pluginMetadata[m].loaded}

\* loadAllPlugins was called in this step: it returned at once or now occupies a slot
LoadAllCalled ==
  /\ started' = started + 1
  /\ \/ ret'.op = "loadAll"
     \/ \E s \in Slots : ops[s].op = "idle" /\ ops'[s].op = "loadAll"

\* C30: load is idempotent.  A loadPlugin call goes past its first line only for a
\* descriptor that is not loaded; a reload that finds its descriptor Loaded when it
\* comes to load it returns without a change to registry, loaded-plugin list,
\* store or plugin objects; loadAll starts loads for exactly the descriptors not
\* loaded and, when there is none, returns at once with the engine unchanged; so
\* a loadAll called after an undisturbed loadAll that loaded everything returns at
\* once and leaves the state as the first call left it.
LoadIdempotent ==
  /\ [][\A s \in Slots : \A l \in ops'[s].loads \ ops[s].loads :
          l.pc = "import" => ~pluginMetadata'[l.m].loaded]_loaderVars
  /\ [][\A s \in Slots :
          (/\ ops[s].op = "reload" /\ ops[s].pc = "unloaded" /\ ops'[s].op = "idle"
           /\ pluginMetadata[ops[s].m].loaded) =>
             UNCHANGED <<commands, loadedPlugins, pluginMetadata, insts>>]_loaderVars
  /\ [][LoadAllCalled =>
          /\ \A s \in Slots :
               (ops[s].op = "idle" /\ ops'[s].op = "loadAll") =>
                 {l.m : l \in ops'[s].loads} = NotLoaded
          /\ NotLoaded = {} =>
               /\ ret'.op = "loadAll" /\ ret'.res = "true"
               /\ \A s \in Slots : ops'[s].loads = ops[s].loads
          /\ UNCHANGED <<commands, pluginMetadata, loadedPlugins, insts, moduleCache>>]_loaderVars
  /\ [][(ret.op = "loadAll" /\ ret.alone /\ ~ret.failed /\ AllIdle /\ LoadAllCalled) =>
          /\ ret'.op = "loadAll" /\ ret'.res = "true" /\ ret'.done = <<>>
          /\ UNCHANGED <<commands, pluginMetadata, loadedPlugins, insts, moduleCache, ops>>]_loaderVars

\* C30 witness: ping and help are loaded and a further loadAll returned at once:
\* it completed no load, logged nothing, and the registry is the one it found
SecondLoadAllChangedNothing ==
  /\ ret.op = "loadAll" /\ ret.res = "true" /\ ret.done = <<>> /\ ret.warned = <<>>
  /\ Len(pluginMetadata) = 2 /\ NotLoaded = {}
  /\ Len(loadedPlugins) = 2
  /\ ret.pre = Snapshot
  /\ DOMAIN commands = {TokP, TokQ, TokH}

\* C32: after an event for a watched code file, exactly one timer is pending and
\* it is the one of that event, whatever files the events before it in the window
\* were for; the firing of a timer performs one action, classified by and carrying
\* the file of that timer: a start request and nothing sent for a core file, at
\* most the one instruction for that file otherwise; and nothing is ever sent but
\* by the firing of a timer.
MostRecentFileWins ==
  /\ [][\A i \in DOMAIN fileWatchers, fn \in WatchedFiles :
          (FileEvent(i, fn) /\ ~isShuttingDown /\ ~Skipped(fn)) =>
            \E t \in debouncePending' :
              /\ debouncePending' = {t}
              /\ t.file = fn /\ t.id = debounceTimer'
              /\ t.over \in {NoFile} \cup {u.file : u \in debouncePending}]_vars
  /\ [][\A t \in debouncePending :
          Fires(t) =>
            /\ debouncePending' = {}
            /\ Classify(t.file) = "core" => (sent' = sent /\ StartRequestArrives)
            /\ Classify(t.file) # "core" =>
                 (sent' = sent \/ sent' = Append(sent, InstructionOf(t)))]_vars
  /\ [][sent' # sent => \E t \in debouncePending : Fires(t)]_vars

\* C32 witness: a change of a plugin file was followed within the window by a
\* change of lib/logger.ts; the window closed with one fileChanged for
\* lib/logger.ts and no reloadPlugin
PluginChangeSupersededByOther ==
  /\ Len(sent) = 1
  /\ sent[1].type = "fileChanged" /\ sent[1].file = LibFile /\ sent[1].over = PluginFileA
  /\ debouncePending = {}

\* C37: at most one filesystem watch is open in every state; the handling of a
\* worker's exit leaves no watch open; and the beginning of a graceful shutdown
\* leaves no watch open.
WatchDiscipline ==
  /\ [](Len(fileWatchers) <= 1)
  /\ [][(\E w \in DOMAIN workers : workers[w].st = "exited" /\ workers'[w].st = "reaped")
          => fileWatchers' = <<>>]_vars
  /\ [][(~isShuttingDown /\ isShuttingDown') => fileWatchers' = <<>>]_vars

\* C38: when the supervisor, outside shutdown, handles the exit of a worker that
\* was replaced earlier (the handle refers to a later worker), the handle still
\* refers to the replacement afterwards and the open watches are unchanged.
ReplacedExitHarmless ==
  [][\A w \in DOMAIN workers :
       (/\ workers[w].st = "exited" /\ workers'[w].st = "reaped"
        /\ ~isShuttingDown
        /\ currentProcess # NoProc /\ currentProcess > w) =>
          /\ currentProcess' = currentProcess
          /\ fileWatchers' = fileWatchers]_vars

\* C39: when the only event from outside is one crash of the first worker (it
\* ended with code 1), the firing of the 5000 ms timer armed by its exit neither
\* kills a worker nor brings the number of workers spawned in all above two.
OneCrashOneReplacement ==
  [][(events = 1 /\ workers[1].code = 1 /\ crashTimers' < crashTimers) =>
       /\ killRestart' = killRestart
       /\ Len(workers') <= 2]_vars

\* C40: whenever isRestarting is true (and the supervisor may still spawn a
\* worker), it is eventually false again, or the supervisor process has ended.
RestartGateReopens ==
  (isRestarting /\ Len(workers) < MaxWorkers) ~> (~isRestarting \/ monitorExit # Running)

\* C40 witness: a file change made startApp kill the first worker, the kill
\* failed (the first worker is still alive), and the 1000 ms timer has reopened
\* the gate and spawned the second worker.
GateReopenedAfterKillError ==
  /\ Len(workers) = 2 /\ Alive(1) /\ Alive(2)
  /\ currentProcess = 2
  /\ ~isRestarting /\ restartTimers = 0 /\ killRestart = {}
  /\ ~isShuttingDown

(***************************************************************************)
(* Properties of snapshots, descriptors and instances.                     *)
(***************************************************************************)

\* C31: snapshot isolation.  getCommands hands out the entries the registry has
\* and leaves the registry alone; no step other than a getCommands call or the
\* caller's own change alters the entries of the Map the caller holds, whatever
\* is loaded, unloaded or reloaded; and the caller's change of its Map does not
\* change the registry.
SnapshotIsolation ==
  /\ [][ret'.op = "getCommands" =>
          (snapshot'.taken /\ SnapshotEntries' = commands /\ commands' = commands)]_vars
  /\ [][(snapshot.taken /\ ret'.op \notin {"getCommands", "modifySnapshot"}) =>
          SnapshotEntries' = SnapshotEntries]_vars
  /\ [][ret'.op = "modifySnapshot" =>
          (commands' = commands /\ DOMAIN SnapshotEntries' # DOMAIN SnapshotEntries)]_vars

\* C31 witness: a snapshot of ping's registry {p, q} was taken, the caller deleted
\* "q" from it while the registry kept "q", and ping was then unloaded: the
\* registry is empty and the snapshot still holds "p"
SnapshotOutlivedUnload ==
  /\ snapshot.taken /\ DOMAIN SnapshotEntries = {TokP}
  /\ ret.op = "unload" /\ ret.res = "true"
  /\ DOMAIN ret.pre = {TokP, TokQ}
  /\ commands = EmptyMap

\* C33: descriptor consistency.  In every state, every descriptor is Loaded if and
\* only if it holds a plugin object.
DescriptorConsistency ==
  \A m \in DOMAIN pluginMetadata :
    pluginMetadata[m].loaded <=> pluginMetadata[m].plugin # NoInst

\* C33 witness: of two descriptors that were both loaded, the second was just
\* unloaded and holds no plugin object, the first is Loaded and holds its own
UnloadedBesideLoaded ==
  /\ ret.op = "unload" /\ ret.res = "true"
  /\ Len(pluginMetadata) = 2
  /\ pluginMetadata[1].loaded /\ pluginMetadata[1].plugin # NoInst
  /\ ~pluginMetadata[2].loaded /\ pluginMetadata[2].plugin = NoInst
  /\ ret.inst # NoInst /\ pluginMetadata[2].filePath.f = ret.f

\* C34: in every state the loaded-plugin list holds, for each Loaded descriptor,
\* that descriptor's plugin object exactly once, and nothing else.
LoadedListMatchesDescriptors ==
  /\ \A m \in DOMAIN pluginMetadata :
       pluginMetadata[m].loaded =>
         Cardinality({j \in DOMAIN loadedPlugins :
                        loadedPlugins[j] = pluginMetadata[m].plugin}) = 1
  /\ \A j \in DOMAIN loadedPlugins :
       \E m \in DOMAIN pluginMetadata :
         pluginMetadata[m].loaded /\ pluginMetadata[m].plugin = loadedPlugins[j]

\* C35: no dangling commands.  Whenever no operation of the engine is in flight,
\* every token of the registry maps to a handler of the plugin object that a
\* Loaded descriptor holds.
NoDanglingCommands ==
  AllIdle =>
    \A t \in DOMAIN commands :
      \E m \in DOMAIN pluginMetadata :
        pluginMetadata[m].loaded /\ pluginMetadata[m].plugin = commands[t][1]

\* the plugins the fallback loop of the dispatch in slot s will still offer the
\* message to: those with a generic handler at or after the iterator's index
Remaining(s) ==
  {Iterated(ops, s)[k] : k \in {j \in DOMAIN Iterated(ops, s) :
                                  j >= ops[s].idx /\ HasHandleMessage(Iterated(ops, s)[j])}}

\* C36: while a dispatch is suspended inside a generic handler, a step of another
\* operation skips no plugin and repeats none: every plugin the loop was still to
\* offer the message to and that is in the loaded-plugin list after the step is
\* still to be offered it, and no plugin already offered the message is to be
\* offered it again.
FallbackSurvivesUnload ==
  [][\A s \in Slots :
       (/\ ops[s].op = "dispatch" /\ ops[s].pc = "message"
        /\ ops'[s].op = "dispatch" /\ ops'[s].calls = ops[s].calls) =>
          /\ \A i \in Remaining(s) : i \in Range(loadedPlugins') => i \in Remaining(s)'
          /\ \A i \in Remaining(s)' :
               \A c \in DOMAIN ops[s].calls : ops[s].calls[c].h[1] # i]_loaderVars

====
